---- MODULE Spec2Model ----
(***************************************************************************)
(* Verification model of facto-ai/facto: the Merkle engines of the         *)
(* processor and of the query service, the batching processor, the         *)
(* TypeScript SDK client and the canonical form used for hashing and       *)
(* signing.                                                                *)
(*                                                                         *)
(* Hashes are modelled as collision-free: SHA-256 over two decoded hex     *)
(* strings (hashPair) is the sequence <<0>> \o left \o right over leaf     *)
(* hashes <<k>>, k >= 1, a prefix code that is injective on well-formed    *)
(* trees.  The empty string "" is <<>>, so hashPair("", "") is SHA-256 of  *)
(* no bytes, <<0>>.                                                        *)
(***************************************************************************)
EXTENDS Integers, Sequences, FiniteSets, TLC

VARIABLES
    \* ---- Merkle engines (processor merkle.go, query service handlers.go)
    leafList,     \* the hashes handed to the engines
    procTree,     \* <<>> or <<t>>: the processor's *MerkleTree
    queryTree,    \* <<>> or <<t>>: the query service's *merkleTree
    procProof,    \* <<>> or <<[index, proof]>>: last GetProof of the processor
    queryProof,   \* <<>> or <<[index, proof]>>: last getProof of the query service
    \* ---- batching processor (consumer.go, storage.go) and its broker
    badMsgs,            \* the published messages whose data is not decodable JSON
    wrongLenMsgs,       \* those whose event has a public key or signature of the wrong length
    stream,             \* broker: message -> "ready" | "delivered" | "acked"
    deliveries,         \* broker: message -> number of deliveries so far
    fetched,            \* puller: msgs.Messages() not yet sent to msgChan
    pullerPc,           \* puller goroutine: "select" | "fetch" | "send" | "exited"
    msgChan,            \* the buffered channel of jetstream.Msg
    chanClosed,         \* close(msgChan) has run
    cancelled,          \* ctx.Done() is closed
    mainPc,             \* Start's for/select loop: "loop" | "returned"
    events,             \* Consumer.events
    messages,           \* Consumer.messages
    tEvents,            \* table events
    tByFactoID,         \* table events_by_facto_id
    tBySession,         \* table events_by_session
    merkleRoots,        \* table merkle_roots, in insertion order
    acks,               \* delivery -> number of msg.Ack() calls
    naks,               \* delivery -> number of msg.Nak() calls
    eventsProcessed,    \* counter facto_processor_events_processed_total
    eventsFailedTotal,  \* counter facto_processor_events_failed_total
    batchesProcessed,   \* counter facto_processor_batches_processed_total
    lastStore,          \* outcomes of the three table batches of the last flush
    replays,            \* number of flushes of a batch that was already in all three tables
    \* ---- TypeScript SDK client (client.ts, crypto.ts)
    prevHash,     \* CryptoProvider._prevHash
    batch,        \* FactoClient.batch
    closed,       \* FactoClient.closed
    calls,        \* record() invocation -> its position and its locals
    flushes,      \* flush() invocation -> <<>> or <<the batch it is sending>>
    delivered,    \* the batches the ingestion service has accepted, in order
    recorded,     \* every event pushed to the batch, in push order
    clock,        \* Date.now()
    \* ---- verification of one event (crypto.ts, query service handlers.go)
    vEvent,       \* the event in wire format, as the verifiers see it
    vSigned,      \* <<>> or <<the event as signEvent signed it>>
    vTampered,    \* <<>> or <<the field changed after signing>>
    vSdk,         \* <<>> or <<the result of the SDK's verifyEvent>>
    vGo,          \* <<>> or <<the result of the Go verifyHash, verifySignature>>
    \* ---- query service (handlers.go, api/storage.go)
    qPublished,   \* the events of the session in the order they were published
    qBySession,   \* the rows of table events_by_session in the session's partition
    qResponse,    \* <<>> or <<the response to the last request>>
    qPrevious,    \* <<>> or <<the page whose next_cursor the last request passed as cursor>>
    \* ---- query service, list by agent and time window (api/storage.go)
    qEvents,      \* the rows of table events
    qList,        \* <<>> or <<the last GET /v1/events request and its response>>
    \* ---- TypeScript SDK client, delivery of batches (client.ts flush, sendBatch, close)
    maxRetries,   \* FactoClient.config.maxRetries
    pending,      \* FactoClient.batch, the events as the numbers of their record() calls
    isClosed,     \* FactoClient.closed
    flushTimer,   \* FactoClient.flushTimer is not null
    numRecorded,  \* the number of events record() has pushed so far
    inFlight,     \* flush() invocation -> its position, its batch, its attempt, the last response
    accepted,     \* the batches the endpoint has answered with an OK status, in order
    closeCalls,   \* close() invocation -> its position and the events recorded before it
    \* ---- batching processor and broker without their counters (consumer.go)
    rdBad,        \* the messages on the stream whose data is not decodable JSON
    rdStream,     \* broker: message -> "ready" | "delivered" | "removed"
    rdFetched,    \* puller: msgs.Messages() not yet sent to msgChan
    rdChan,       \* the buffered channel of jetstream.Msg
    rdMessages    \* Consumer.messages, and Consumer.events in step with it

merkleVars == <<leafList, procTree, queryTree, procProof, queryProof>>

brokerVars == <<badMsgs, wrongLenMsgs, stream, deliveries>>
pullerVars == <<fetched, pullerPc>>
tableVars == <<tEvents, tByFactoID, tBySession, merkleRoots>>
counterVars == <<eventsProcessed, eventsFailedTotal, batchesProcessed>>
flushVars == <<events, messages, tableVars, acks, naks, counterVars, lastStore, replays>>
procVars == <<brokerVars, pullerVars, msgChan, chanClosed, cancelled, mainPc, flushVars>>

clientVars == <<prevHash, batch, closed, calls, flushes, delivered, recorded, clock>>
verifyVars == <<vEvent, vSigned, vTampered, vSdk, vGo>>
sdkVars == <<clientVars, verifyVars>>

sessionVars == <<qPublished, qBySession, qResponse, qPrevious>>
listVars == <<qEvents, qList>>
queryVars == <<sessionVars, listVars>>

sendVars == <<maxRetries, pending, isClosed, flushTimer, numRecorded, inFlight, accepted, closeCalls>>

redeliverVars == <<rdBad, rdStream, rdFetched, rdChan, rdMessages>>

vars == <<merkleVars, procVars, sdkVars, queryVars, sendVars, redeliverVars>>

\* ------------------------------------------------------------------ bounds
MaxLeaves == 6
NumLeafHashes == 2
NumMsgs == 2
MaxDeliveries == 3

\* ------------------------------------------------------------------ helpers
Last(s) == s[Len(s)]

\* ------------------------------------------------------------------ hashing
\* hex.EncodeToString(sha256.New().Sum(nil)): SHA-256 of the empty input
Sha256Empty == <<0>>

\* the Go empty string
EmptyString == <<>>

LeafHashes == {<<k>> : k \in 1..NumLeafHashes}

hashPair(left, right) == <<0>> \o left \o right

\* ------------------------------------------------ processor Merkle engine
NilNode == 0

MerkleNode(h) == [Hash |-> h, Left |-> NilNode, Right |-> NilNode, Parent |-> NilNode]

\* the for-loop of buildTree: pairs nodes[i], nodes[i+1] under a new parent
RECURSIVE buildTreePairs(_, _, _, _)
buildTreePairs(heap, nodes, i, parents) ==
    IF i >= Len(nodes) THEN [heap |-> heap, parents |-> parents]
    ELSE LET left == nodes[i + 1]
             right == IF i + 1 < Len(nodes) THEN nodes[i + 2] ELSE nodes[i + 1]
             p == Len(heap) + 1
             parent == [Hash |-> hashPair(heap[left].Hash, heap[right].Hash),
                        Left |-> left, Right |-> right, Parent |-> NilNode]
             h1 == Append(heap, parent)
             h2 == [h1 EXCEPT ![left].Parent = p]
             h3 == [h2 EXCEPT ![right].Parent = p]
         IN buildTreePairs(h3, nodes, i + 2, Append(parents, p))

RECURSIVE buildTree(_, _)
buildTree(heap, nodes) ==
    IF Len(nodes) = 1 THEN [heap |-> heap, root |-> nodes[1]]
    ELSE LET r == buildTreePairs(heap, nodes, 0, <<>>)
             odd == Len(r.parents) > 1 /\ Len(r.parents) % 2 # 0
             heap2 == IF odd
                      THEN Append(r.heap, MerkleNode(r.heap[Last(r.parents)].Hash))
                      ELSE r.heap
             parents2 == IF odd
                         THEN Append(r.parents, Len(r.heap) + 1)
                         ELSE r.parents
         IN buildTree(heap2, parents2)

BuildMerkleTree(hashes) ==
    IF Len(hashes) = 0
    THEN [root |-> 1, leaves |-> <<>>, heap |-> <<MerkleNode(Sha256Empty)>>]
    ELSE LET n == Len(hashes)
             leafHeap == [i \in 1..n |-> MerkleNode(hashes[i])]
             odd == n % 2 # 0
             heap0 == IF odd THEN Append(leafHeap, MerkleNode(hashes[n])) ELSE leafHeap
             leaves == [i \in 1..Len(heap0) |-> i]
             b == buildTree(heap0, leaves)
         IN [root |-> b.root, leaves |-> leaves, heap |-> b.heap]

Root(t) == IF t.root = NilNode THEN EmptyString ELSE t.heap[t.root].Hash

ProofElement(h, pos) == [Hash |-> h, Position |-> pos]

\* the loop of GetProof: climbs the Parent pointers from node
RECURSIVE GetProofFrom(_, _, _)
GetProofFrom(t, node, proof) ==
    IF t.heap[node].Parent = NilNode THEN proof
    ELSE LET parent == t.heap[node].Parent
             isLeft == t.heap[parent].Left = node
             sibling == IF isLeft THEN t.heap[parent].Right ELSE t.heap[parent].Left
             position == IF isLeft THEN "right" ELSE "left"
             proof2 == IF sibling # NilNode
                       THEN Append(proof, ProofElement(t.heap[sibling].Hash, position))
                       ELSE proof
         IN GetProofFrom(t, parent, proof2)

\* index is 0-based as in the source; nil is the empty sequence
GetProof(t, index) ==
    IF index < 0 \/ index >= Len(t.leaves) THEN <<>>
    ELSE GetProofFrom(t, t.leaves[index + 1], <<>>)

RECURSIVE VerifyProofFold(_, _, _)
VerifyProofFold(currentHash, proof, k) ==
    IF k > Len(proof) THEN currentHash
    ELSE VerifyProofFold(
            IF proof[k].Position = "left"
            THEN hashPair(proof[k].Hash, currentHash)
            ELSE hashPair(currentHash, proof[k].Hash),
            proof, k + 1)

VerifyProof(leafHash, proof, root) == VerifyProofFold(leafHash, proof, 1) = root

\* -------------------------------------------- query service Merkle engine
\* one pass of the for-loop of buildMerkleTree over an even-length level
RECURSIVE nextLevel(_, _, _)
nextLevel(current, i, next) ==
    IF i >= Len(current) THEN next
    ELSE nextLevel(current, i + 2, Append(next, hashPair(current[i + 1], current[i + 2])))

\* mutant: an odd level is padded with a copy of its first node
padOddFirst(level) == IF Len(level) % 2 # 0 THEN Append(level, level[1]) ELSE level

padOdd(level) == IF Len(level) % 2 # 0 THEN Append(level, Last(level)) ELSE level

RECURSIVE buildLevels(_, _)
buildLevels(current, levels) ==
    IF Len(current) <= 1 THEN [levels |-> levels, current |-> current]
    ELSE LET next == nextLevel(padOdd(current), 0, <<>>)
         IN buildLevels(next, Append(levels, next))

buildMerkleTree(hashes) ==
    IF Len(hashes) = 0
    THEN [root |-> EmptyString, leaves |-> <<>>, levels |-> <<>>]
    ELSE LET b == buildLevels(hashes, <<hashes>>)
         IN [root |-> b.current[1], leaves |-> hashes, levels |-> b.levels]

\* mutant: the sibling of an even index is reported on the left
RECURSIVE getProofFromFlipped(_, _, _, _)
getProofFromFlipped(t, idx, level, proof) ==
    IF level >= Len(t.levels) - 1 THEN proof
    ELSE LET levelNodes == padOdd(t.levels[level + 1])
             siblingIdx == IF idx % 2 = 0 THEN idx + 1 ELSE idx - 1
             position == "left"
             proof2 == IF siblingIdx < Len(levelNodes)
                       THEN Append(proof, ProofElement(levelNodes[siblingIdx + 1], position))
                       ELSE proof
         IN getProofFromFlipped(t, idx \div 2, level + 1, proof2)

\* the loop of getProof over the levels below the root
RECURSIVE getProofFrom(_, _, _, _)
getProofFrom(t, idx, level, proof) ==
    IF level >= Len(t.levels) - 1 THEN proof
    ELSE LET levelNodes == padOdd(t.levels[level + 1])
             siblingIdx == IF idx % 2 = 0 THEN idx + 1 ELSE idx - 1
             position == IF idx % 2 = 0 THEN "right" ELSE "left"
             proof2 == IF siblingIdx < Len(levelNodes)
                       THEN Append(proof, ProofElement(levelNodes[siblingIdx + 1], position))
                       ELSE proof
         IN getProofFrom(t, idx \div 2, level + 1, proof2)

getProof(t, index) ==
    IF index < 0 \/ index >= Len(t.leaves) THEN <<>>
    ELSE getProofFrom(t, index, 0, <<>>)

\* ------------------------------------------------ Merkle state machine
RECURSIVE SeqsUpTo(_, _)
SeqsUpTo(S, n) ==
    IF n = 0 THEN {<<>>}
    ELSE LET shorter == SeqsUpTo(S, n - 1)
         IN shorter \cup {Append(s, x) : s \in {t \in shorter : Len(t) = n - 1}, x \in S}

MerkleIdle ==
    /\ leafList = <<>>
    /\ procTree = <<>>
    /\ queryTree = <<>>
    /\ procProof = <<>>
    /\ queryProof = <<>>

MerkleStart ==
    /\ leafList \in SeqsUpTo(LeafHashes, MaxLeaves)
    /\ procTree = <<>>
    /\ queryTree = <<>>
    /\ procProof = <<>>
    /\ queryProof = <<>>

\* flush / a caller builds the processor's tree over the hashes
ProcBuild ==
    /\ procTree = <<>>
    /\ procTree' = <<BuildMerkleTree(leafList)>>
    /\ UNCHANGED <<leafList, queryTree, procProof, queryProof, procVars, sdkVars, queryVars, sendVars, redeliverVars>>

\* GetEvidencePackage builds the query service's tree over the hashes
QueryBuild ==
    /\ queryTree = <<>>
    /\ queryTree' = <<buildMerkleTree(leafList)>>
    /\ UNCHANGED <<leafList, procTree, procProof, queryProof, procVars, sdkVars, queryVars, sendVars, redeliverVars>>

\* a proof request for any index, also one outside the leaf list
ProcGetProof(i) ==
    /\ procTree # <<>>
    /\ procProof' = <<[index |-> i, proof |-> GetProof(procTree[1], i)]>>
    /\ UNCHANGED <<leafList, procTree, queryTree, queryProof, procVars, sdkVars, queryVars, sendVars, redeliverVars>>

QueryGetProof(i) ==
    /\ queryTree # <<>>
    /\ queryProof' = <<[index |-> i, proof |-> getProof(queryTree[1], i)]>>
    /\ UNCHANGED <<leafList, procTree, queryTree, procProof, procVars, sdkVars, queryVars, sendVars, redeliverVars>>

MerkleNext ==
    \/ ProcBuild
    \/ QueryBuild
    \/ \E i \in -1..MaxLeaves : ProcGetProof(i)
    \/ \E i \in -1..MaxLeaves : QueryGetProof(i)

\* ------------------------------------------------ batching processor
\* c.batchSize (BATCH_SIZE, default 1000): the buffer and channel capacity
BatchSize == 2

Msgs == 1..NumMsgs

\* a stream that holds one message more than the channel
BacklogMsgs == 1..(BatchSize + 1)

\* a jetstream.Msg handed to the processor: message m on its n-th delivery
Delivery(m, n) == [msg |-> m, n |-> n]
Deliveries == {Delivery(m, n) : m \in Msgs, n \in 1..MaxDeliveries}

\* the FactoEvent json.Unmarshal decodes from the data of message m
EventOf(m) == [FactoID |-> m, EventHash |-> <<m>>]

\* ConsumerConfig.MaxAckPending
MaxAckPending == BatchSize * 2

\* the messages published to the stream
Published == DOMAIN stream

Outstanding == {m \in Published : stream[m] = "delivered"}
RECURSIVE SetToSeq(_)
SetToSeq(S) ==
    IF S = {} THEN <<>>
    ELSE LET m == CHOOSE x \in S : \A y \in S : x <= y
         IN <<m>> \o SetToSeq(S \ {m})

RECURSIVE SeqSum(_)
SeqSum(s) == IF s = <<>> THEN 0 ELSE Head(s) + SeqSum(Tail(s))

Range(s) == {s[i] : i \in 1..Len(s)}

\* the broker delivers a ready message (a new one, or one that was NAKed) while
\* it has made fewer than MaxDeliveries deliveries in all
TotalDeliveries == SeqSum([m \in Published |-> deliveries[m]])
Deliverable == {m \in Published : stream[m] = "ready" /\ TotalDeliveries < MaxDeliveries}

\* number of positions of the buffer that hold delivery d
Occurrences(msgs, d) == Cardinality({i \in 1..Len(msgs) : msgs[i] = d})

\* ---- storage
\* outcome of one ExecuteBatch: applied, or failed with nothing written.  A batch
\* bound to a context that is already cancelled fails without being sent.
StoreOutcomes(ctxDone) == IF ctxDone THEN {"fail"} ELSE {"ok", "fail"}

\* time.Now() inside a flush: flushes run one after the other, at increasing times
timeNow == batchesProcessed + 1

\* the row the three INSERT statements write for an event
rowOf(e, now) == [FactoID |-> e.FactoID, EventHash |-> e.EventHash, received_at |-> now]

\* the table holds the event: a row under its key with its event_hash
Holds(table, e) == \E r \in table : r.FactoID = e.FactoID /\ r.EventHash = e.EventHash

InAllTables(e) == Holds(tEvents, e) /\ Holds(tByFactoID, e) /\ Holds(tBySession, e)

\* mutant: an insert does not overwrite the row stored under the same key
UpsertKeepBoth(table, rows) == table \cup rows

\* INSERT of the rows of a batch: an upsert on the primary key
Upsert(table, rows) ==
    {r \in table : \A w \in rows : w.FactoID # r.FactoID} \cup rows

ExecuteBatch(table, rows, outcome) ==
    IF outcome = "fail" THEN table ELSE Upsert(table, rows)

\* mutant: only the error of the first table batch is looked at
StoreBatchErrFirstOnly(outcomes) == outcomes[1] # "ok"

\* mutant: the batch is treated as failed whatever the table batches returned
StoreBatchErrAlways(outcomes) == TRUE

\* g.Wait() returns an error when one of the three table batches failed
StoreBatchErr(outcomes) == \E i \in 1..3 : outcomes[i] # "ok"

\* ---- broker reaction to the acknowledgements of a batch
AfterAck(msgs) == [m \in Published |-> IF \E d \in Range(msgs) : d.msg = m
                                  THEN "acked" ELSE stream[m]]
AfterNak(msgs) == [m \in Published |-> IF \E d \in Range(msgs) : d.msg = m
                                  THEN "ready" ELSE stream[m]]

\* mutant: flush does not return early on an empty buffer
NothingBufferedNever(evs) == FALSE

\* mutant of Cleared: the buffer keeps its elements
Retained(buf) == buf

\* flush, lines 313-314: c.events[:0], c.messages[:0]
Cleared(buf) == SubSeq(buf, 1, 0)

\* flush, lines 260-262: len(c.events) == 0
NothingBuffered(evs) == Len(evs) = 0

\* ---- Consumer.flush over the buffers evs / msgs
\* outcomes: those of the three table batches; rootOk: StoreMerkleRoot succeeded
flush(evs, msgs, outcomes, rootOk) ==
    IF NothingBuffered(evs)
    THEN /\ events' = evs
         /\ messages' = msgs
         /\ UNCHANGED <<tableVars, acks, naks, counterVars, lastStore, replays, stream>>
    ELSE LET eventCount == Len(evs)
             hashes == [i \in 1..Len(evs) |-> evs[i].EventHash]
             merkleRoot == Root(BuildMerkleTree(hashes))
             rows == {rowOf(e, timeNow) : e \in Range(evs)}
             err == StoreBatchErr(outcomes)
         IN /\ tEvents' = ExecuteBatch(tEvents, rows, outcomes[1])
            /\ tByFactoID' = ExecuteBatch(tByFactoID, rows, outcomes[2])
            /\ tBySession' = ExecuteBatch(tBySession, rows, outcomes[3])
            /\ IF err
               THEN /\ naks' = [d \in DOMAIN naks |-> naks[d] + Occurrences(msgs, d)]
                    /\ eventsFailedTotal' = eventsFailedTotal + eventCount
                    /\ stream' = AfterNak(msgs)
                    /\ UNCHANGED <<acks, eventsProcessed, merkleRoots>>
               ELSE /\ merkleRoots' =
                          IF rootOk /\ Len(evs) > 0
                          THEN Append(merkleRoots,
                                      [root_hash |-> merkleRoot,
                                       event_count |-> eventCount,
                                       first_facto_id |-> evs[1].FactoID,
                                       last_facto_id |-> evs[Len(evs)].FactoID,
                                       event_hashes |-> hashes])
                          ELSE merkleRoots
                    /\ acks' = [d \in DOMAIN acks |-> acks[d] + Occurrences(msgs, d)]
                    /\ eventsProcessed' = eventsProcessed + eventCount
                    /\ stream' = AfterAck(msgs)
                    /\ UNCHANGED <<naks, eventsFailedTotal>>
            /\ batchesProcessed' = batchesProcessed + 1
            /\ lastStore' = outcomes
            /\ replays' = IF \A e \in Range(evs) : InAllTables(e) THEN replays + 1 ELSE replays
            /\ events' = Cleared(evs)
            /\ messages' = Cleared(msgs)

\* what the storage can report to one flush: the outcomes of the three table
\* batches and, when all three succeeded, of StoreMerkleRoot; an empty buffer
\* asks the storage nothing
FlushOutcomes(evs) ==
    IF Len(evs) = 0 THEN {[store |-> <<"ok", "ok", "ok">>, rootOk |-> TRUE]}
    ELSE LET S == StoreOutcomes(cancelled)
         IN {[store |-> <<o1, o2, o3>>, rootOk |-> r] :
                o1 \in S, o2 \in S, o3 \in S, r \in BOOLEAN}
            \ {x \in [store : S \X S \X S, rootOk : {FALSE}] :
                    x.store # <<"ok", "ok", "ok">>}

\* a flush with every outcome the storage can report
SomeFlush(evs, msgs) ==
    \E o \in FlushOutcomes(evs) : flush(evs, msgs, o.store, o.rootOk)

\* mutant of BatchFull: the flush waits for one event more
BatchOverfull(evs) == Len(evs) > BatchSize

\* handleMessage, line 254: len(c.events) >= c.batchSize
BatchFull(evs) == Len(evs) >= BatchSize

\* ---- Consumer.handleMessage
handleMessage(d) ==
    IF d.msg \in badMsgs
    THEN /\ naks' = [naks EXCEPT ![d] = @ + 1]
         /\ eventsFailedTotal' = eventsFailedTotal + 1
         /\ stream' = AfterNak(<<d>>)
         /\ UNCHANGED <<events, messages, tableVars, acks, eventsProcessed,
                        batchesProcessed, lastStore, replays>>
    ELSE LET evs == Append(events, EventOf(d.msg))
             msgs == Append(messages, d)
         IN IF BatchFull(evs)
            THEN SomeFlush(evs, msgs)
            ELSE /\ events' = evs
                 /\ messages' = msgs
                 /\ UNCHANGED <<tableVars, acks, naks, counterVars, lastStore,
                                replays, stream>>

\* ---- the puller goroutine of Start
\* select: case <-ctx.Done()
PullerCtxDone ==
    /\ pullerPc = "select"
    /\ cancelled
    /\ chanClosed' = TRUE
    /\ pullerPc' = "exited"
    /\ UNCHANGED <<queryVars, sdkVars, merkleVars, redeliverVars, sendVars, brokerVars, fetched, msgChan, cancelled, mainPc, flushVars>>

\* select: default, taken only while ctx.Done() is not ready
PullerDefault ==
    /\ pullerPc = "select"
    /\ ~cancelled
    /\ pullerPc' = "fetch"
    /\ UNCHANGED <<queryVars, sdkVars, merkleVars, redeliverVars, sendVars, brokerVars, fetched, msgChan, chanClosed, cancelled,
                   mainPc, flushVars>>

\* consumer.Fetch(c.batchSize, FetchMaxWait): k messages, none on error or timeout
PullerFetch(k) ==
    /\ pullerPc = "fetch"
    /\ k <= Cardinality(Deliverable)
    /\ k <= MaxDeliveries - TotalDeliveries
    /\ k <= MaxAckPending - Cardinality(Outstanding)
    /\ LET got == SubSeq(SetToSeq(Deliverable), 1, k)
       IN /\ fetched' = [i \in 1..k |-> Delivery(got[i], deliveries[got[i]] + 1)]
          /\ stream' = [m \in Published |-> IF m \in Range(got) THEN "delivered" ELSE stream[m]]
          /\ deliveries' = [m \in Published |-> IF m \in Range(got)
                                           THEN deliveries[m] + 1 ELSE deliveries[m]]
    /\ pullerPc' = IF k = 0 THEN "select" ELSE "send"
    /\ UNCHANGED <<queryVars, sdkVars, merkleVars, redeliverVars, sendVars, badMsgs, wrongLenMsgs, msgChan, chanClosed, cancelled, mainPc, flushVars>>

\* mutant of HasRoom: the channel buffers one message more
HasRoomForOneMore(ch) == Len(ch) <= BatchSize

\* make(chan jetstream.Msg, c.batchSize): a send proceeds while fewer than
\* batchSize messages are buffered
HasRoom(ch) == Len(ch) < BatchSize

\* msgChan <- msg: blocks while the channel is full
PullerSend ==
    /\ pullerPc = "send"
    /\ HasRoom(msgChan)
    /\ msgChan' = Append(msgChan, Head(fetched))
    /\ fetched' = Tail(fetched)
    /\ pullerPc' = IF Len(fetched) = 1 THEN "select" ELSE "send"
    /\ UNCHANGED <<queryVars, sdkVars, merkleVars, redeliverVars, sendVars, brokerVars, chanClosed, cancelled, mainPc, flushVars>>

\* ---- the for/select loop of Start
\* case <-ctx.Done(): flush what is buffered, return ctx.Err()
MainCtxDone ==
    /\ mainPc = "loop"
    /\ cancelled
    /\ SomeFlush(events, messages)
    /\ mainPc' = "returned"
    /\ UNCHANGED <<queryVars, sdkVars, merkleVars, redeliverVars, sendVars, badMsgs, wrongLenMsgs, deliveries, pullerVars, msgChan, chanClosed,
                   cancelled>>

\* case msg, ok := <-msgChan with ok: handleMessage
MainRecv ==
    /\ mainPc = "loop"
    /\ Len(msgChan) > 0
    /\ msgChan' = Tail(msgChan)
    /\ handleMessage(Head(msgChan))
    /\ UNCHANGED <<queryVars, sdkVars, merkleVars, redeliverVars, sendVars, badMsgs, wrongLenMsgs, deliveries, pullerVars, chanClosed, cancelled,
                   mainPc>>

\* case msg, ok := <-msgChan with !ok (closed and drained): return nil
MainRecvClosed ==
    /\ mainPc = "loop"
    /\ chanClosed
    /\ Len(msgChan) = 0
    /\ mainPc' = "returned"
    /\ UNCHANGED <<queryVars, sdkVars, merkleVars, redeliverVars, sendVars, brokerVars, pullerVars, msgChan, chanClosed, cancelled,
                   flushVars>>

\* case <-ticker.C: flush when something is buffered
MainTick ==
    /\ mainPc = "loop"
    /\ SomeFlush(events, messages)
    /\ UNCHANGED <<queryVars, sdkVars, merkleVars, redeliverVars, sendVars, badMsgs, wrongLenMsgs, deliveries, pullerVars, msgChan, chanClosed,
                   cancelled, mainPc>>

\* main: cancel() on SIGINT / SIGTERM or on a consumer error
Cancel ==
    /\ ~cancelled
    /\ cancelled' = TRUE
    /\ UNCHANGED <<queryVars, sdkVars, merkleVars, redeliverVars, sendVars, brokerVars, pullerVars, msgChan, chanClosed, mainPc,
                   flushVars>>

ProcStart ==
    /\ badMsgs \in SUBSET Msgs
    /\ wrongLenMsgs \in {{}, Msgs \ badMsgs}
    /\ stream = [m \in Msgs |-> "ready"]
    /\ deliveries = [m \in Msgs |-> 0]
    /\ fetched = <<>>
    /\ pullerPc = "select"
    /\ msgChan = <<>>
    /\ chanClosed = FALSE
    /\ cancelled = FALSE
    /\ mainPc = "loop"
    /\ events = <<>>
    /\ messages = <<>>
    /\ tEvents = {}
    /\ tByFactoID = {}
    /\ tBySession = {}
    /\ merkleRoots = <<>>
    /\ acks = [d \in Deliveries |-> 0]
    /\ naks = [d \in Deliveries |-> 0]
    /\ eventsProcessed = 0
    /\ eventsFailedTotal = 0
    /\ batchesProcessed = 0
    /\ lastStore = <<"ok", "ok", "ok">>
    /\ replays = 0

\* the processor is not running: the state of the other specifications
ProcIdle ==
    /\ badMsgs = {}
    /\ wrongLenMsgs = {}
    /\ stream = [m \in Msgs |-> "acked"]
    /\ deliveries = [m \in Msgs |-> 0]
    /\ fetched = <<>>
    /\ pullerPc = "exited"
    /\ msgChan = <<>>
    /\ chanClosed = TRUE
    /\ cancelled = TRUE
    /\ mainPc = "returned"
    /\ events = <<>>
    /\ messages = <<>>
    /\ tEvents = {}
    /\ tByFactoID = {}
    /\ tBySession = {}
    /\ merkleRoots = <<>>
    /\ acks = [d \in Deliveries |-> 0]
    /\ naks = [d \in Deliveries |-> 0]
    /\ eventsProcessed = 0
    /\ eventsFailedTotal = 0
    /\ batchesProcessed = 0
    /\ lastStore = <<"ok", "ok", "ok">>
    /\ replays = 0

\* ------------------------------------------------ JSON values and JSON text
\* A JSON value is a tagged record.  JSON text is the sequence of its tokens:
\* punctuation and scalar values, in the order the serializer writes them.
JUndefined == [t |-> "undefined"]
JNull == [t |-> "null"]
JStr(s) == [t |-> "str", s |-> s]
JNum(n) == [t |-> "num", n |-> n]
JHex(h) == [t |-> "hex", h |-> h]
JObj(o) == [t |-> "obj", o |-> o]
JArr(a) == [t |-> "arr", a |-> a]

Punct(c) == [t |-> "punct", s |-> c]

EmptyObject == [k \in {} |-> JNull]

\* every object key of the model, in ascending code-unit order
KeyOrder ==
    <<"action_type", "agent_id", "completed_at", "env", "execution_meta", "facto_id",
      "input_data", "max_tokens", "model_hash", "model_id", "name", "output_data",
      "parent_facto_id", "prev_hash", "q", "sdk_language", "sdk_version", "seed",
      "session_id", "started_at", "status", "tags", "temperature", "tool_calls">>

\* Array.prototype.sort() on strings, sort.Strings: the keys S in ascending order
SortStrings(S) == SelectSeq(KeyOrder, LAMBDA k : k \in S)

RECURSIVE JoinComma(_)
JoinComma(parts) ==
    IF Len(parts) = 0 THEN <<>>
    ELSE IF Len(parts) = 1 THEN parts[1]
    ELSE parts[1] \o <<Punct(",")>> \o JoinComma(Tail(parts))

\* JSON.stringify(value, replacer) with an array replacer: of every object, at
\* every depth, only the properties named in the array are written, in the
\* array's order; array elements are all written
RECURSIVE JSON_stringify(_, _)
JSON_stringify(value, replacer) ==
    CASE value.t = "obj" ->
           LET keys == SelectSeq(replacer, LAMBDA k : k \in DOMAIN value.o)
               parts == [i \in 1..Len(keys) |->
                            <<JStr(keys[i]), Punct(":")>>
                               \o JSON_stringify(value.o[keys[i]], replacer)]
           IN  <<Punct("{")>> \o JoinComma(parts) \o <<Punct("}")>>
      [] value.t = "arr" ->
           LET parts == [i \in 1..Len(value.a) |-> JSON_stringify(value.a[i], replacer)]
           IN  <<Punct("[")>> \o JoinComma(parts) \o <<Punct("]")>>
      [] OTHER -> <<value>>

\* encoding/json Marshal: of every map, at every depth, all the keys are
\* written, in ascending order
RECURSIVE json_Marshal(_)
json_Marshal(v) ==
    CASE v.t = "obj" ->
           LET keys == SortStrings(DOMAIN v.o)
               parts == [i \in 1..Len(keys) |->
                            <<JStr(keys[i]), Punct(":")>> \o json_Marshal(v.o[keys[i]])]
           IN  <<Punct("{")>> \o JoinComma(parts) \o <<Punct("}")>>
      [] v.t = "arr" ->
           LET parts == [i \in 1..Len(v.a) |-> json_Marshal(v.a[i])]
           IN  <<Punct("[")>> \o JoinComma(parts) \o <<Punct("]")>>
      [] OTHER -> <<v>>

\* ------------------------------------------------ hashing and signing
\* '0'.repeat(64), the hex string of no digest
ZeroHash == <<Punct("0")>>

\* a hex string of 64 digits that is the digest of no canonical form
OtherHash == <<Punct("f")>>

\* hex of SHA3-256 of a text, collision-free: the digest names its preimage
sha3_256(text) == <<Punct("sha3-256")>> \o text

\* Ed25519: the public key of a private key, a signature, its verification
getPublicKey(privateKey) == [t |-> "pub", key |-> privateKey]

ed25519_sign(message, privateKey) == [t |-> "sig", key |-> privateKey, msg |-> message]

ed25519_verify(signature, message, publicKey) ==
    /\ signature.t = "sig"
    /\ publicKey.t = "pub"
    /\ signature.key = publicKey.key
    /\ signature.msg = message

\* the empty byte string
NoBytes == [t |-> "bytes", len |-> 0]

toBase64(bytes) == [t |-> "b64", bytes |-> bytes]

fromBase64(base64) == base64.bytes

\* the string '' read as base64
EmptyBase64 == toBase64(NoBytes)

\* ------------------------------------------------ canonical form, SDK side
\* CryptoProvider.buildCanonicalForm(event: FactoEventWire)
CryptoProvider_buildCanonicalForm(event) ==
    LET execMeta ==
            (IF event.execution_meta.model_id # JNull
                THEN [model_id |-> event.execution_meta.model_id] ELSE EmptyObject)
            @@ [seed |-> event.execution_meta.seed,
                sdk_version |-> event.execution_meta.sdk_version]
            @@ (IF event.execution_meta.temperature # JNull
                THEN [temperature |-> event.execution_meta.temperature] ELSE EmptyObject)
            @@ [tool_calls |-> event.execution_meta.tool_calls]
        canonical ==
            [action_type |-> event.action_type,
             agent_id |-> event.agent_id,
             completed_at |-> event.completed_at,
             execution_meta |-> JObj(execMeta),
             input_data |-> event.input_data,
             output_data |-> event.output_data,
             parent_facto_id |-> event.parent_facto_id,
             prev_hash |-> JHex(event.proof.prev_hash),
             session_id |-> event.session_id,
             started_at |-> event.started_at,
             status |-> event.status,
             facto_id |-> event.facto_id]
    IN  JSON_stringify(JObj(canonical), SortStrings(DOMAIN canonical))

\* CryptoProvider.computeHash(canonical)
computeHash(canonical) == sha3_256(canonical)

\* CryptoProvider.signEvent(event): [eventHash, signatureBase64]
signEvent(privateKey, event) ==
    LET canonical == CryptoProvider_buildCanonicalForm(event)
    IN  <<computeHash(canonical), toBase64(ed25519_sign(canonical, privateKey))>>

\* verifyEvent(event: FactoEventWire): [hashValid, signatureValid]
verifyEvent(event) ==
    LET canonical == CryptoProvider_buildCanonicalForm(event)
        computedHash == computeHash(canonical)
    IN  [hash_valid |-> computedHash = event.proof.event_hash,
         signature_valid |-> ed25519_verify(fromBase64(event.proof.signature), canonical,
                                            fromBase64(event.proof.public_key))]

\* ------------------------------------------------ canonical form, Go side
RECURSIVE sortedMap(_)
sortedMap(m) ==
    [k \in DOMAIN m |-> IF m[k].t = "obj" THEN JObj(sortedMap(m[k].o)) ELSE m[k]]

\* mutant of buildCanonicalForm: sdk_language is hashed with execution_meta
buildCanonicalFormWithLanguage(event) ==
    LET execMeta ==
            [seed |-> event.execution_meta.seed,
             sdk_language |-> event.execution_meta.sdk_language,
             sdk_version |-> event.execution_meta.sdk_version,
             tool_calls |-> event.execution_meta.tool_calls]
        canonical ==
            [action_type |-> event.action_type,
             agent_id |-> event.agent_id,
             completed_at |-> event.completed_at,
             execution_meta |-> JObj(execMeta),
             input_data |-> event.input_data,
             output_data |-> event.output_data,
             parent_facto_id |-> event.parent_facto_id,
             prev_hash |-> JHex(event.proof.prev_hash),
             session_id |-> event.session_id,
             started_at |-> event.started_at,
             status |-> event.status,
             facto_id |-> event.facto_id]
    IN  json_Marshal(JObj(canonical))

\* buildCanonicalForm(event *EventResponse) of the query service
buildCanonicalForm(event) ==
    LET execMeta ==
            (IF event.execution_meta.model_id # JNull
                THEN [model_id |-> event.execution_meta.model_id] ELSE EmptyObject)
            @@ [seed |-> event.execution_meta.seed,
                sdk_version |-> event.execution_meta.sdk_version]
            @@ (IF event.execution_meta.temperature # JNull
                THEN [temperature |-> event.execution_meta.temperature] ELSE EmptyObject)
            @@ [tool_calls |-> event.execution_meta.tool_calls]
        canonical ==
            [action_type |-> event.action_type,
             agent_id |-> event.agent_id,
             completed_at |-> event.completed_at,
             execution_meta |-> JObj(execMeta),
             input_data |-> event.input_data,
             output_data |-> event.output_data,
             parent_facto_id |-> event.parent_facto_id,
             prev_hash |-> JHex(event.proof.prev_hash),
             session_id |-> event.session_id,
             started_at |-> event.started_at,
             status |-> event.status,
             facto_id |-> event.facto_id]
    IN  json_Marshal(JObj(sortedMap(canonical)))

verifyHash(event) ==
    LET canonical == buildCanonicalForm(event)
        computedHash == sha3_256(canonical)
    IN  computedHash = event.proof.event_hash

\* base64.StdEncoding.DecodeString and the length checks of verifySignature
IsKeyBytes(b) == b.t = "pub"

IsSignatureBytes(b) == b.t = "sig"

verifySignature(event) ==
    LET pubKeyBytes == fromBase64(event.proof.public_key)
        sigBytes == fromBase64(event.proof.signature)
    IN  IF ~IsKeyBytes(pubKeyBytes) THEN FALSE
        ELSE IF ~IsSignatureBytes(sigBytes) THEN FALSE
        ELSE ed25519_verify(sigBytes, buildCanonicalForm(event), pubKeyBytes)

\* ------------------------------------------------ SDK events
SDK_VERSION == JStr("0.1.0")

SDK_LANGUAGE == JStr("typescript")

\* the ?? operator
Coalesce(x, d) == IF x = JUndefined \/ x = JNull THEN d ELSE x

\* generateFactoId(): `ft-${uuid}`, a fresh uuid per call
generateFactoId(uuid) == [t |-> "str", s |-> "ft-", uuid |-> uuid]

\* FactoConfig of the one client of the model
Config ==
    [agentId |-> JStr("agent"), sessionId |-> JStr("session"), privateKey |-> 1,
     tags |-> EmptyObject]

publicKeyBase64 == toBase64(getPublicKey(Config.privateKey))

DataObjects ==
    {JObj(EmptyObject), JObj([q |-> JStr("a")]), JObj([status |-> JStr("a")])}

\* Partial<ExecutionMeta> of RecordOptions
PartialExecutionMetas ==
    [modelId : {JUndefined, JStr("m")},
     modelHash : {JUndefined},
     temperature : {JUndefined},
     seed : {JUndefined, JNum(1)},
     maxTokens : {JUndefined},
     toolCalls : {JUndefined, JArr(<<JObj([name |-> JStr("t")])>>)},
     tags : {EmptyObject}]

RecordOptions ==
    [actionType : {JStr("llm_call")},
     inputData : DataObjects,
     outputData : DataObjects,
     status : {JUndefined, JStr("error")},
     parentFactoId : {JUndefined},
     executionMeta : PartialExecutionMetas,
     startedAt : {JUndefined},
     completedAt : {JUndefined}]

\* record(), lines 93-106: the merged tags and the ExecutionMeta
executionMetaOf(options) ==
    [modelId |-> options.executionMeta.modelId,
     modelHash |-> options.executionMeta.modelHash,
     temperature |-> options.executionMeta.temperature,
     seed |-> options.executionMeta.seed,
     maxTokens |-> options.executionMeta.maxTokens,
     toolCalls |-> Coalesce(options.executionMeta.toolCalls, JArr(<<>>)),
     sdkVersion |-> SDK_VERSION,
     sdkLanguage |-> SDK_LANGUAGE,
     tags |-> JObj(options.executionMeta.tags @@ Config.tags)]

\* record(), lines 108-137: the event for signing, in wire format
eventWireOf(factoId, options, now, prev) ==
    LET executionMeta == executionMetaOf(options)
    IN  [facto_id |-> factoId,
         agent_id |-> Config.agentId,
         session_id |-> Config.sessionId,
         parent_facto_id |-> Coalesce(options.parentFactoId, JNull),
         action_type |-> options.actionType,
         status |-> Coalesce(options.status, JStr("success")),
         input_data |-> options.inputData,
         output_data |-> options.outputData,
         execution_meta |->
            [model_id |-> Coalesce(executionMeta.modelId, JNull),
             model_hash |-> Coalesce(executionMeta.modelHash, JNull),
             temperature |-> Coalesce(executionMeta.temperature, JNull),
             seed |-> Coalesce(executionMeta.seed, JNull),
             max_tokens |-> Coalesce(executionMeta.maxTokens, JNull),
             tool_calls |-> Coalesce(executionMeta.toolCalls, JArr(<<>>)),
             sdk_version |-> executionMeta.sdkVersion,
             sdk_language |-> executionMeta.sdkLanguage,
             tags |-> executionMeta.tags],
         proof |->
            [signature |-> EmptyBase64,
             public_key |-> publicKeyBase64,
             prev_hash |-> prev,
             event_hash |-> EmptyString],
         started_at |-> Coalesce(options.startedAt, now),
         completed_at |-> Coalesce(options.completedAt, now)]

\* record(), lines 142-161: the complete event
factoEventOf(factoId, options, now, signature, prev, eventHash) ==
    [factoId |-> factoId,
     agentId |-> Config.agentId,
     sessionId |-> Config.sessionId,
     parentFactoId |-> options.parentFactoId,
     actionType |-> options.actionType,
     status |-> Coalesce(options.status, JStr("success")),
     inputData |-> options.inputData,
     outputData |-> options.outputData,
     executionMeta |-> executionMetaOf(options),
     proof |-> [signature |-> signature, publicKey |-> publicKeyBase64,
                prevHash |-> prev, eventHash |-> eventHash],
     startedAt |-> Coalesce(options.startedAt, now),
     completedAt |-> Coalesce(options.completedAt, now)]

\* toWireFormat(event: FactoEvent)
toWireFormat(event) ==
    [facto_id |-> event.factoId,
     agent_id |-> event.agentId,
     session_id |-> event.sessionId,
     parent_facto_id |-> Coalesce(event.parentFactoId, JNull),
     action_type |-> event.actionType,
     status |-> event.status,
     input_data |-> event.inputData,
     output_data |-> event.outputData,
     execution_meta |->
        [model_id |-> Coalesce(event.executionMeta.modelId, JNull),
         model_hash |-> Coalesce(event.executionMeta.modelHash, JNull),
         temperature |-> Coalesce(event.executionMeta.temperature, JNull),
         seed |-> Coalesce(event.executionMeta.seed, JNull),
         max_tokens |-> Coalesce(event.executionMeta.maxTokens, JNull),
         tool_calls |-> Coalesce(event.executionMeta.toolCalls, JArr(<<>>)),
         sdk_version |-> event.executionMeta.sdkVersion,
         sdk_language |-> event.executionMeta.sdkLanguage,
         tags |-> event.executionMeta.tags],
     proof |->
        [signature |-> event.proof.signature,
         public_key |-> event.proof.publicKey,
         prev_hash |-> event.proof.prevHash,
         event_hash |-> event.proof.eventHash],
     started_at |-> event.startedAt,
     completed_at |-> event.completedAt]

\* ------------------------------------------------ verifying one event
VerifyIdle ==
    /\ vEvent = <<>>
    /\ vSigned = <<>>
    /\ vTampered = <<>>
    /\ vSdk = <<>>
    /\ vGo = <<>>

\* an event built by record() from some options, not yet signed
VerifyStart ==
    /\ \E options \in RecordOptions, prev \in {ZeroHash, OtherHash} :
          vEvent = eventWireOf(generateFactoId(1), options, JNum(1), prev)
    /\ vSigned = <<>>
    /\ vTampered = <<>>
    /\ vSdk = <<>>
    /\ vGo = <<>>

\* record(), lines 140-158 and toWireFormat: the signed event on the wire
SignEvent ==
    /\ vSigned = <<>>
    /\ LET signed == signEvent(Config.privateKey, vEvent)
           event == [vEvent EXCEPT !.proof.event_hash = signed[1],
                                   !.proof.signature = signed[2]]
       IN  /\ vEvent' = event
           /\ vSigned' = <<event>>
    /\ vSdk' = <<>>
    /\ vGo' = <<>>
    /\ UNCHANGED <<vTampered, clientVars, merkleVars, redeliverVars, sendVars, procVars, queryVars>>

\* the other values a nested data object can take: one value changed
ChangedObjects(obj) ==
    {JObj([obj.o EXCEPT ![k] = JStr("b")]) : k \in DOMAIN obj.o}

\* the events that differ from e in the value of one field of the canonical form
ChangedEvents(e) ==
    {[field |-> "status", event |-> [e EXCEPT !.status = v]] :
        v \in {JStr("success"), JStr("error")} \ {e.status}}
    \cup {[field |-> "prev_hash", event |-> [e EXCEPT !.proof.prev_hash = v]] :
        v \in {ZeroHash, OtherHash} \ {e.proof.prev_hash}}
    \cup {[field |-> "completed_at",
           event |-> [e EXCEPT !.completed_at = JNum(e.completed_at.n + 1)]]}
    \cup {[field |-> "input_data", event |-> [e EXCEPT !.input_data = v]] :
        v \in ChangedObjects(e.input_data)}
    \cup {[field |-> "output_data", event |-> [e EXCEPT !.output_data = v]] :
        v \in ChangedObjects(e.output_data)}
    \cup {[field |-> "execution_meta.seed",
           event |-> [e EXCEPT !.execution_meta.seed = JNum(2)]]}
    \cup {[field |-> "execution_meta.sdk_version",
           event |-> [e EXCEPT !.execution_meta.sdk_version = JStr("9.9.9")]]}
    \cup {[field |-> "execution_meta.model_id",
           event |-> [e EXCEPT !.execution_meta.model_id = JStr("m2")]] :
        x \in {e.execution_meta.model_id} \ {JNull}}
    \cup {[field |-> "execution_meta.tool_calls",
           event |-> [e EXCEPT !.execution_meta.tool_calls =
                                  JArr(<<JObj([name |-> JStr("u")])>>)]] :
        x \in {e.execution_meta.tool_calls} \ {JArr(<<>>)}}

\* a signed event is altered in transit or at rest, without re-signing
Tamper ==
    /\ vSigned # <<>>
    /\ vTampered = <<>>
    /\ \E c \in ChangedEvents(vEvent) :
          /\ vEvent' = c.event
          /\ vTampered' = <<c.field>>
    /\ vSdk' = <<>>
    /\ vGo' = <<>>
    /\ UNCHANGED <<vSigned, clientVars, merkleVars, redeliverVars, sendVars, procVars, queryVars>>

\* the other value each of the four fields of execution_meta that neither
\* buildCanonicalForm reads can take
Relabelled(meta) ==
    [model_hash |-> IF meta.model_hash = JNull THEN JStr("sha256:m") ELSE JNull,
     max_tokens |-> IF meta.max_tokens = JNull THEN JNum(16) ELSE JNull,
     tags |-> IF meta.tags = JObj(EmptyObject)
              THEN JObj([env |-> JStr("prod")]) ELSE JObj(EmptyObject),
     sdk_language |-> IF meta.sdk_language = SDK_LANGUAGE
                      THEN JStr("python") ELSE SDK_LANGUAGE]

\* the events that differ from e in one of these fields, or in all four
RelabelledEvents(e) ==
    LET other == Relabelled(e.execution_meta)
    IN  {[e EXCEPT !.execution_meta.model_hash = other.model_hash],
         [e EXCEPT !.execution_meta.max_tokens = other.max_tokens],
         [e EXCEPT !.execution_meta.tags = other.tags],
         [e EXCEPT !.execution_meta.sdk_language = other.sdk_language],
         [e EXCEPT !.execution_meta.model_hash = other.model_hash,
                   !.execution_meta.max_tokens = other.max_tokens,
                   !.execution_meta.tags = other.tags,
                   !.execution_meta.sdk_language = other.sdk_language]}

\* a signed event is altered in these fields, once and without re-signing; the
\* verdicts given so far stay on record
Relabel ==
    /\ vSigned # <<>>
    /\ \A f \in {"model_hash", "max_tokens", "tags", "sdk_language"} :
          vEvent.execution_meta[f] = vSigned[1].execution_meta[f]
    /\ \E event \in RelabelledEvents(vEvent) : vEvent' = event
    /\ UNCHANGED <<vSigned, vTampered, vSdk, vGo, clientVars, merkleVars, redeliverVars, sendVars, procVars, queryVars>>

\* the SDK's verifyEvent(event)
SdkVerifyEvent ==
    /\ vSdk' = <<verifyEvent(vEvent)>>
    /\ UNCHANGED <<vEvent, vSigned, vTampered, vGo, clientVars, merkleVars, redeliverVars, sendVars, procVars, queryVars>>

\* Handlers.VerifyEvent of the query service, POST /v1/verify
VerifyEvent ==
    /\ vGo' = <<[hash_valid |-> verifyHash(vEvent),
                 signature_valid |-> verifySignature(vEvent)]>>
    /\ UNCHANGED <<vEvent, vSigned, vTampered, vSdk, clientVars, merkleVars, redeliverVars, sendVars, procVars, queryVars>>

VerifyNext ==
    \/ SignEvent
    \/ Tamper
    \/ Relabel
    \/ SdkVerifyEvent
    \/ VerifyEvent

\* ------------------------------------------------ SDK client (FactoClient)
NumCalls == 2
ClientBatchSize == 2
MaxTime == 2

Calls == 1..NumCalls

\* the invocations of flush(): by the interval timer, by record() call c, by close()
TimerFlushId == 0

CloseFlushId == NumCalls + 1

FlushIds == TimerFlushId..CloseFlushId

\* the options the callers of the model pass to record()
ClientRecordOptions ==
    {o \in RecordOptions :
        /\ o.inputData = JObj([q |-> JStr("a")])
        /\ o.outputData = JObj(EmptyObject)
        /\ o.executionMeta.modelId = JUndefined
        /\ o.executionMeta.seed = JUndefined
        /\ o.executionMeta.toolCalls = JUndefined}

NewCall == [pc |-> "new"]

ClientIdle ==
    /\ prevHash = ZeroHash
    /\ batch = <<>>
    /\ closed = TRUE
    /\ clock = MaxTime
    /\ calls = [c \in Calls |-> [pc |-> "returned"]]
    /\ flushes = [f \in FlushIds |-> <<>>]
    /\ delivered = <<>>
    /\ recorded = <<>>

\* new FactoClient(config)
ClientStart ==
    /\ prevHash = ZeroHash
    /\ batch = <<>>
    /\ closed = FALSE
    /\ clock = 1
    /\ calls = [c \in Calls |-> NewCall]
    /\ flushes = [f \in FlushIds |-> <<>>]
    /\ delivered = <<>>
    /\ recorded = <<>>

\* Date.now() advances
Tick ==
    /\ clock < MaxTime
    /\ clock' = clock + 1
    /\ UNCHANGED <<prevHash, batch, closed, calls, flushes, delivered, recorded,
                   verifyVars, merkleVars, redeliverVars, sendVars, procVars, queryVars>>

\* record(options) up to the await on signEvent: the event for signing is
\* built from the current prev_hash, canonicalised and hashed
RecordStart(c, options) ==
    /\ calls[c].pc = "new"
    /\ \A d \in Calls : d < c => calls[d].pc # "new"
    /\ LET factoId == generateFactoId(c)
           now == JNum(clock)
           eventWire == eventWireOf(factoId, options, now, prevHash)
           signed == signEvent(Config.privateKey, eventWire)
       IN  calls' = [calls EXCEPT ![c] =
                        [pc |-> "signing", factoId |-> factoId, options |-> options,
                         now |-> now, eventWire |-> eventWire,
                         eventHash |-> signed[1], signature |-> signed[2]]]
    /\ UNCHANGED <<prevHash, batch, closed, clock, flushes, delivered, recorded,
                   verifyVars, merkleVars, redeliverVars, sendVars, procVars, queryVars>>

\* the prevHash of the complete event's proof: a second read of crypto.prevHash
proofPrevHashOfWire(call, current) == call.eventWire.proof.prev_hash

proofPrevHash(call, current) == current

\* mutant of updatePrevHash: the chain state is left as it was
updatePrevHashNever(current, eventHash) == current

\* CryptoProvider.updatePrevHash(eventHash): the new value of _prevHash
updatePrevHash(current, eventHash) == eventHash

\* record() from the resumption after signEvent: the complete event, the
\* update of prev_hash, the push and the flush of a full batch
RecordResume(c) ==
    /\ calls[c].pc = "signing"
    /\ LET call == calls[c]
           event == factoEventOf(call.factoId, call.options, call.now, call.signature,
                                 proofPrevHash(call, prevHash), call.eventHash)
           pushed == Append(batch, event)
       IN  /\ prevHash' = updatePrevHash(prevHash, call.eventHash)
           /\ recorded' = Append(recorded, event)
           /\ IF Len(pushed) >= ClientBatchSize
                 THEN /\ batch' = <<>>
                      /\ flushes' = [flushes EXCEPT ![c] = <<pushed>>]
                      /\ calls' = [calls EXCEPT ![c].pc = "flushing"]
                 ELSE /\ batch' = pushed
                      /\ flushes' = flushes
                      /\ calls' = [calls EXCEPT ![c].pc = "returned"]
    /\ UNCHANGED <<closed, clock, delivered, verifyVars, merkleVars, redeliverVars, sendVars, procVars, queryVars>>

\* the interval timer's flush(), up to the await on sendBatch
TimerFlush ==
    /\ ~closed
    /\ batch # <<>>
    /\ flushes[TimerFlushId] = <<>>
    /\ flushes' = [flushes EXCEPT ![TimerFlushId] = <<batch>>]
    /\ batch' = <<>>
    /\ UNCHANGED <<prevHash, closed, clock, calls, delivered, recorded,
                   verifyVars, merkleVars, redeliverVars, sendVars, procVars, queryVars>>

\* close(), up to the await on sendBatch
Close ==
    /\ ~closed
    /\ closed' = TRUE
    /\ IF batch # <<>>
          THEN /\ flushes' = [flushes EXCEPT ![CloseFlushId] = <<batch>>]
               /\ batch' = <<>>
          ELSE UNCHANGED <<flushes, batch>>
    /\ UNCHANGED <<prevHash, clock, calls, delivered, recorded,
                   verifyVars, merkleVars, redeliverVars, sendVars, procVars, queryVars>>

\* sendBatch settles: the batch was accepted, or the last attempt failed and
\* flush() puts the events back in front of the batch
FlushSettle(f, ok) ==
    /\ flushes[f] # <<>>
    /\ flushes' = [flushes EXCEPT ![f] = <<>>]
    /\ IF ok
          THEN /\ delivered' = Append(delivered, flushes[f][1])
               /\ batch' = batch
          ELSE /\ delivered' = delivered
               /\ batch' = flushes[f][1] \o batch
    /\ IF f \in Calls
          THEN calls' = [calls EXCEPT ![f].pc = IF ok THEN "returned" ELSE "rejected"]
          ELSE calls' = calls
    /\ UNCHANGED <<prevHash, closed, clock, recorded, verifyVars, merkleVars, redeliverVars, sendVars, procVars, queryVars>>

ClientNext ==
    \/ Tick
    \/ \E c \in Calls, options \in ClientRecordOptions : RecordStart(c, options)
    \/ \E c \in Calls : RecordResume(c)
    \/ TimerFlush
    \/ Close
    \/ \E f \in FlushIds, ok \in BOOLEAN : FlushSettle(f, ok)

\* ------------------------------------------------ SDK client: delivery of batches
\* The events are the numbers of the record() calls that pushed them; flush,
\* sendBatch and close are followed await by await.
MaxRecorded == 2

MaxRetries == 2

MaxFlushes == 2

NumCloses == 2

FlushCalls == 1..MaxFlushes

CloseCalls == 1..NumCloses

\* the outcomes of one fetch: a 2xx status, a status below 500 that is not OK,
\* and a status of 500 or more; a rejected fetch (network failure, abort on
\* timeout) reaches the catch block as the throw of the server error does
Responses == {"ok", "client_error", "server_error"}

NoFlush == [pc |-> "idle", events |-> <<>>, attempt |-> 0, last |-> "none"]

SendIdle ==
    /\ maxRetries = 0
    /\ pending = <<>>
    /\ isClosed = TRUE
    /\ flushTimer = FALSE
    /\ numRecorded = 0
    /\ inFlight = [f \in FlushCalls |-> NoFlush]
    /\ accepted = <<>>
    /\ closeCalls = [c \in CloseCalls |-> [pc |-> "resolved", before |-> 0, flush |-> 0]]

\* new FactoClient(config): config.maxRetries ?? 3 keeps a configured 0
SendStart ==
    /\ maxRetries \in 0..MaxRetries
    /\ pending = <<>>
    /\ isClosed = FALSE
    /\ flushTimer = TRUE
    /\ numRecorded = 0
    /\ inFlight = [f \in FlushCalls |-> NoFlush]
    /\ accepted = <<>>
    /\ closeCalls = [c \in CloseCalls |-> [pc |-> "new", before |-> 0, flush |-> 0]]

FreeFlush(f) == inFlight[f].pc = "idle" /\ \A g \in 1..(f - 1) : inFlight[g].pc # "idle"

\* sendBatch up to its first await: the loop runs only while attempt < maxRetries,
\* and a loop that never runs falls through to the end of the function
sendBatch(evs) ==
    [pc |-> IF 0 < maxRetries THEN "fetch" ELSE "resolved",
     events |-> evs, attempt |-> 0, last |-> "none"]

\* flush up to its await on sendBatch, for a batch that is not empty
flushBatch(f, current) ==
    /\ pending' = <<>>
    /\ inFlight' = [inFlight EXCEPT ![f] = sendBatch(current)]

\* the catch block of flush: this.batch = [...batch, ...this.batch]
putBackBehind(taken, current) == current \o taken

putBack(taken, current) == taken \o current

\* record(), from the push of the signed event to its return or its await on flush
SendRecord ==
    /\ numRecorded < MaxRecorded
    /\ numRecorded' = numRecorded + 1
    /\ LET pushed == Append(pending, numRecorded + 1)
       IN  IF Len(pushed) >= ClientBatchSize
              THEN \E f \in FlushCalls : FreeFlush(f) /\ flushBatch(f, pushed)
              ELSE pending' = pushed /\ inFlight' = inFlight
    /\ UNCHANGED <<maxRetries, isClosed, flushTimer, accepted, closeCalls>>
    /\ UNCHANGED <<merkleVars, redeliverVars, procVars, sdkVars, queryVars>>

\* the setInterval callback: if (!this.closed) this.flush().catch(console.error)
SendTimerFlush ==
    /\ flushTimer
    /\ ~isClosed
    /\ pending # <<>>
    /\ \E f \in FlushCalls : FreeFlush(f) /\ flushBatch(f, pending)
    /\ UNCHANGED <<maxRetries, isClosed, flushTimer, numRecorded, accepted, closeCalls>>
    /\ UNCHANGED <<merkleVars, redeliverVars, procVars, sdkVars, queryVars>>

\* a call of flush() by the application
SendFlush ==
    /\ pending # <<>>
    /\ \E f \in FlushCalls : FreeFlush(f) /\ flushBatch(f, pending)
    /\ UNCHANGED <<maxRetries, isClosed, flushTimer, numRecorded, accepted, closeCalls>>
    /\ UNCHANGED <<merkleVars, redeliverVars, procVars, sdkVars, queryVars>>

\* close() up to its return or its await on flush
SendClose(c) ==
    /\ closeCalls[c].pc = "new"
    /\ \A b \in 1..(c - 1) : closeCalls[b].pc # "new"
    /\ IF isClosed
          THEN /\ closeCalls' = [closeCalls EXCEPT ![c] =
                      [pc |-> "resolved", before |-> numRecorded, flush |-> 0]]
               /\ UNCHANGED <<isClosed, flushTimer, pending, inFlight>>
          ELSE /\ isClosed' = TRUE
               /\ flushTimer' = FALSE
               /\ IF pending = <<>>
                     THEN /\ closeCalls' = [closeCalls EXCEPT ![c] =
                                 [pc |-> "resolved", before |-> numRecorded, flush |-> 0]]
                          /\ UNCHANGED <<pending, inFlight>>
                     ELSE \E f \in FlushCalls :
                            /\ FreeFlush(f)
                            /\ flushBatch(f, pending)
                            /\ closeCalls' = [closeCalls EXCEPT ![c] =
                                 [pc |-> IF 0 < maxRetries THEN "awaiting" ELSE "resolved",
                                  before |-> numRecorded, flush |-> f]]
    /\ UNCHANGED <<maxRetries, numRecorded, accepted>>
    /\ UNCHANGED <<merkleVars, redeliverVars, procVars, sdkVars, queryVars>>

\* the close() call that awaits flush f settles as the flush does
settleClose(f, pc) ==
    [c \in CloseCalls |->
        IF closeCalls[c].pc = "awaiting" /\ closeCalls[c].flush = f
           THEN [closeCalls[c] EXCEPT !.pc = pc]
           ELSE closeCalls[c]]

\* one fetch of sendBatch settles: the try block returns on an OK status and
\* throws on every other one, the catch block rethrows on the last attempt
\* and otherwise goes to the backoff wait
SendRespond(f, r) ==
    /\ inFlight[f].pc = "fetch"
    /\ LET call == inFlight[f]
       IN  IF r = "ok"
              THEN /\ inFlight' = [inFlight EXCEPT ![f].pc = "resolved", ![f].last = r]
                   /\ accepted' = Append(accepted, call.events)
                   /\ closeCalls' = settleClose(f, "resolved")
                   /\ pending' = pending
              ELSE IF call.attempt = maxRetries - 1
                      THEN /\ inFlight' = [inFlight EXCEPT ![f].pc = "rejected", ![f].last = r]
                           /\ pending' = putBack(call.events, pending)
                           /\ closeCalls' = settleClose(f, "rejected")
                           /\ accepted' = accepted
                      ELSE /\ inFlight' = [inFlight EXCEPT ![f].pc = "backoff", ![f].last = r]
                           /\ UNCHANGED <<pending, closeCalls, accepted>>
    /\ UNCHANGED <<maxRetries, isClosed, flushTimer, numRecorded>>
    /\ UNCHANGED <<merkleVars, redeliverVars, procVars, sdkVars, queryVars>>

\* the backoff wait of sendBatch ends and the loop goes to its next attempt
SendBackoff(f) ==
    /\ inFlight[f].pc = "backoff"
    /\ inFlight' = [inFlight EXCEPT ![f].pc = "fetch", ![f].attempt = @ + 1]
    /\ UNCHANGED <<maxRetries, pending, isClosed, flushTimer, numRecorded, accepted, closeCalls>>
    /\ UNCHANGED <<merkleVars, redeliverVars, procVars, sdkVars, queryVars>>

SendNext ==
    \/ SendRecord
    \/ SendTimerFlush
    \/ SendFlush
    \/ \E c \in CloseCalls : SendClose(c)
    \/ \E f \in FlushCalls, r \in Responses : SendRespond(f, r)
    \/ \E f \in FlushCalls : SendBackoff(f)

\* ------------------------------------------------ the stream under redelivery
\* The processor and its broker without delivery numbers, tables and counters:
\* what Fetch, handleMessage and flush do to the messages on the stream.  The
\* consumer is created without MaxDeliver, so the broker redelivers a message
\* that was NAKed as often as it is NAKed.
RedeliverIdle ==
    /\ rdBad = {}
    /\ rdStream = [m \in BacklogMsgs |-> "removed"]
    /\ rdFetched = <<>>
    /\ rdChan = <<>>
    /\ rdMessages = <<>>

\* the producers have published and stopped; any of the messages may be undecodable
RedeliverStart ==
    /\ rdBad \in SUBSET BacklogMsgs
    /\ rdStream = [m \in BacklogMsgs |-> "ready"]
    /\ rdFetched = <<>>
    /\ rdChan = <<>>
    /\ rdMessages = <<>>

\* msg.Nak(): the broker makes the messages ready for another delivery
rdNak(msgs) == [m \in BacklogMsgs |-> IF m \in Range(msgs) THEN "ready" ELSE rdStream[m]]

\* msg.Ack(): the work-queue stream removes the messages
rdAck(msgs) == [m \in BacklogMsgs |-> IF m \in Range(msgs) THEN "removed" ELSE rdStream[m]]

\* flush of a buffer that is not empty: Ack all when StoreBatch succeeded, Nak
\* all when it failed, and clear the buffers
rdFlush(msgs, stored) ==
    /\ rdStream' = IF stored THEN rdAck(msgs) ELSE rdNak(msgs)
    /\ rdMessages' = Cleared(msgs)

rdReady == {m \in BacklogMsgs : rdStream[m] = "ready"}

rdOutstanding == {m \in BacklogMsgs : rdStream[m] = "delivered"}

\* consumer.Fetch(c.batchSize, ...) returns k >= 1 of the ready messages
RedeliverFetch(k) ==
    /\ rdFetched = <<>>
    /\ k <= Cardinality(rdReady)
    /\ k <= MaxAckPending - Cardinality(rdOutstanding)
    /\ LET got == SubSeq(SetToSeq(rdReady), 1, k)
       IN  /\ rdFetched' = got
           /\ rdStream' = [m \in BacklogMsgs |-> IF m \in Range(got) THEN "delivered" ELSE rdStream[m]]
    /\ UNCHANGED <<rdBad, rdChan, rdMessages>>
    /\ UNCHANGED <<merkleVars, procVars, sdkVars, queryVars, sendVars>>

\* msgChan <- msg
RedeliverSend ==
    /\ rdFetched # <<>>
    /\ HasRoom(rdChan)
    /\ rdChan' = Append(rdChan, Head(rdFetched))
    /\ rdFetched' = Tail(rdFetched)
    /\ UNCHANGED <<rdBad, rdStream, rdMessages>>
    /\ UNCHANGED <<merkleVars, procVars, sdkVars, queryVars, sendVars>>

\* case msg := <-msgChan: handleMessage, with the flush of a full buffer
RedeliverRecv(stored) ==
    /\ Len(rdChan) > 0
    /\ rdChan' = Tail(rdChan)
    /\ LET m == Head(rdChan)
       IN  IF m \in rdBad
           THEN /\ stored
                /\ rdStream' = rdNak(<<m>>)
                /\ rdMessages' = rdMessages
           ELSE LET msgs == Append(rdMessages, m)
                IN  IF BatchFull(msgs)
                    THEN rdFlush(msgs, stored)
                    ELSE stored /\ rdMessages' = msgs /\ rdStream' = rdStream
    /\ UNCHANGED <<rdBad, rdFetched>>
    /\ UNCHANGED <<merkleVars, procVars, sdkVars, queryVars, sendVars>>

\* case <-ticker.C: flush when something is buffered
RedeliverTick(stored) ==
    /\ Len(rdMessages) > 0
    /\ rdFlush(rdMessages, stored)
    /\ UNCHANGED <<rdBad, rdFetched, rdChan>>
    /\ UNCHANGED <<merkleVars, procVars, sdkVars, queryVars, sendVars>>

SomeRedeliverFetch == \E k \in 1..BatchSize : RedeliverFetch(k)

RedeliverNext ==
    \/ SomeRedeliverFetch
    \/ RedeliverSend
    \/ \E stored \in BOOLEAN : RedeliverRecv(stored)
    \/ \E stored \in BOOLEAN : RedeliverTick(stored)

\* the goroutines run, the ticker ticks, the broker delivers what is ready, and
\* storage writes eventually succeed: a flush that keeps being attempted is
\* eventually one whose StoreBatch succeeds
RedeliverFairness ==
    /\ WF_vars(SomeRedeliverFetch)
    /\ WF_vars(RedeliverSend)
    /\ WF_vars(\E stored \in BOOLEAN : RedeliverRecv(stored))
    /\ SF_vars(RedeliverRecv(TRUE))
    /\ SF_vars(RedeliverTick(TRUE))

\* ------------------------------------------------ specifications
\* ------------------------------------------------ bounds of the session model
MaxSessionEvents == 2

MaxSessionTime == 2

\* ------------------------------------------------ processor row projection
\* the Go zero values written for nil pointers
GoEmptyString == JStr("")

GoZero == JNum(0)

\* a decimal that float32 does not represent exactly, and what it reads back as
JDec(digits) == [t |-> "dec", digits |-> digits]

\* float32(x) of StoreBatch, read back into a float64
float32(x) == IF x = JDec("0.7") THEN JDec("0.699999988079071") ELSE x

\* a hex string shorter than 16 characters
ShortHash == <<Punct("abc")>>

\* len() of a prev_hash or event_hash string
hashLen(h) == IF h = EmptyString THEN 0 ELSE IF h = ShortHash THEN 3 ELSE 64

\* json.Unmarshal: the value a JSON text denotes, read from position i
RECURSIVE ParseValue(_, _)
RECURSIVE ParseMembers(_, _, _)
RECURSIVE ParseElements(_, _, _)
ParseValue(text, i) ==
    IF text[i] = Punct("{")
    THEN IF text[i + 1] = Punct("}")
         THEN [v |-> JObj(EmptyObject), next |-> i + 2]
         ELSE ParseMembers(text, i + 1, EmptyObject)
    ELSE IF text[i] = Punct("[")
    THEN IF text[i + 1] = Punct("]")
         THEN [v |-> JArr(<<>>), next |-> i + 2]
         ELSE ParseElements(text, i + 1, <<>>)
    ELSE [v |-> text[i], next |-> i + 1]

ParseMembers(text, i, members) ==
    LET val == ParseValue(text, i + 2)
        members2 == (text[i].s :> val.v) @@ members
    IN  IF text[val.next] = Punct(",")
        THEN ParseMembers(text, val.next + 1, members2)
        ELSE [v |-> JObj(members2), next |-> val.next + 1]

ParseElements(text, i, elements) ==
    LET val == ParseValue(text, i)
        elements2 == Append(elements, val.v)
    IN  IF text[val.next] = Punct(",")
        THEN ParseElements(text, val.next + 1, elements2)
        ELSE [v |-> JArr(elements2), next |-> val.next + 1]

json_Unmarshal(text) == IF Len(text) = 0 THEN JNull ELSE ParseValue(text, 1).v

\* StoreBatch, lines 62-115: the pre-processed event
eventDataOf(event) ==
    LET deref(p, zero) == IF p = JNull THEN zero ELSE p
    IN  [event |-> event,
         inputData |-> json_Marshal(event.input_data),
         outputData |-> json_Marshal(event.output_data),
         toolCalls |-> json_Marshal(event.execution_meta.tool_calls),
         completedTime |-> event.completed_at,
         modelID |-> deref(event.execution_meta.model_id, GoEmptyString),
         modelHash |-> deref(event.execution_meta.model_hash, GoEmptyString),
         sdkVersion |-> event.execution_meta.sdk_version,
         sdkLanguage |-> event.execution_meta.sdk_language,
         temperature |-> float32(deref(event.execution_meta.temperature, GoZero)),
         seed |-> deref(event.execution_meta.seed, GoZero),
         maxTokens |-> deref(event.execution_meta.max_tokens, GoZero),
         parentFactoID |-> deref(event.parent_facto_id, GoEmptyString)]

\* storeBySessionBatch: the columns of the row inserted into events_by_session
sessionRowOf(e) ==
    [session_id |-> e.event.session_id,
     completed_at |-> e.completedTime,
     facto_id |-> e.event.facto_id,
     agent_id |-> e.event.agent_id,
     action_type |-> e.event.action_type,
     status |-> e.event.status,
     event_hash |-> e.event.proof.event_hash,
     input_data |-> e.inputData,
     output_data |-> e.outputData,
     model_id |-> e.modelID,
     temperature |-> e.temperature,
     sdk_version |-> e.sdkVersion,
     sdk_language |-> e.sdkLanguage,
     tags |-> e.event.execution_meta.tags,
     signature |-> e.event.proof.signature,
     public_key |-> e.event.proof.public_key,
     prev_hash |-> e.event.proof.prev_hash,
     parent_facto_id |-> e.parentFactoID,
     started_at |-> e.event.started_at]

\* the primary key of events_by_session inside one session partition
SessionKey(row) == <<row.completed_at, row.facto_id>>

\* INSERT: a row with the same primary key is overwritten
UpsertSession(table, row) ==
    {r \in table : SessionKey(r) # SessionKey(row)} \cup {row}

\* ------------------------------------------------ query service storage
\* buildEventResponse of api/storage.go
buildEventResponse(factoID, agentID, sessionID, parentFactoID, actionType, status, inputData, outputData, modelID, modelHash, temperature, seed, maxTokens, toolCalls, sdkVersion, sdkLanguage, tags, signature, publicKey, prevHash_, eventHash, startedAt, completedAt) ==
    LET input == json_Unmarshal(inputData)
        output == json_Unmarshal(outputData)
        tools == json_Unmarshal(toolCalls)
        ptr(x, zero) == IF x # zero THEN x ELSE JNull
    IN  [facto_id |-> factoID,
         agent_id |-> agentID,
         session_id |-> sessionID,
         parent_facto_id |-> ptr(parentFactoID, GoEmptyString),
         action_type |-> actionType,
         status |-> status,
         input_data |-> IF input = JNull THEN JObj(EmptyObject) ELSE input,
         output_data |-> IF output = JNull THEN JObj(EmptyObject) ELSE output,
         execution_meta |->
            [model_id |-> ptr(modelID, GoEmptyString),
             model_hash |-> ptr(modelHash, GoEmptyString),
             temperature |-> ptr(temperature, GoZero),
             seed |-> ptr(seed, GoZero),
             max_tokens |-> ptr(maxTokens, GoZero),
             tool_calls |-> IF tools = JNull THEN JArr(<<>>) ELSE tools,
             sdk_version |-> sdkVersion,
             sdk_language |-> sdkLanguage,
             tags |-> tags],
         proof |->
            [signature |-> signature,
             public_key |-> publicKey,
             prev_hash |-> prevHash_,
             event_hash |-> eventHash],
         started_at |-> startedAt,
         completed_at |-> completedAt]

\* the iter.Scan loop body of Storage.GetSessionEvents: one row read back
scanSessionRow(row) ==
    buildEventResponse(row.facto_id, row.agent_id, row.session_id, row.parent_facto_id,
                       row.action_type, row.status, row.input_data, row.output_data,
                       row.model_id, GoEmptyString, row.temperature, GoZero, GoZero,
                       <<Punct("["), Punct("]")>>,
                       row.sdk_version, row.sdk_language, row.tags,
                       row.signature, row.public_key, row.prev_hash, row.event_hash,
                       row.started_at, row.completed_at)

\* the rows of a session partition in clustering order: ascending completed_at,
\* rows of equal completed_at in any order
SessionScans(rows) ==
    {s \in [1..Cardinality(rows) -> rows] :
        /\ \A i, j \in DOMAIN s : i # j => s[i] # s[j]
        /\ \A i, j \in DOMAIN s : i < j => s[i].completed_at.n <= s[j].completed_at.n}

\* Storage.GetSessionEvents(ctx, sessionID, limit, cursor): the events and whether
\* a next cursor is returned, for the rows as the iterator yields them
GetSessionEvents(scan, limit, cursor) ==
    LET evs == [i \in 1..Len(scan) |-> scanSessionRow(scan[i])]
    IN  IF Len(evs) > limit
        THEN [events |-> SubSeq(evs, 1, limit),
              nextCursor |-> toBase64(evs[limit].facto_id)]
        ELSE [events |-> evs, nextCursor |-> JNull]

\* ------------------------------------------------ query service handlers
\* sort.Slice(events, less by CompletedAt): every order the unstable sort can
\* leave, ascending completed_at with ties anywhere
SortedByCompletedAt(evs) ==
    {s \in [1..Len(evs) -> Range(evs)] :
        /\ \A e \in Range(evs) : \E i \in DOMAIN s : s[i] = e
        /\ \A i, j \in DOMAIN s : i < j => s[i].completed_at.n <= s[j].completed_at.n}

\* s[:16] of a hash string of 64 characters
Prefix16(h) == [t |-> "prefix16", of |-> h]

\* the error entries of ChainVerifyResponse.Errors
HashError(event) == [msg |-> "Hash invalid for event: ", facto_id |-> event.facto_id]

SignatureError(event) == [msg |-> "Signature invalid for event: ", facto_id |-> event.facto_id]

ChainError(event, expectedPrevHash) ==
    [msg |-> "Chain broken at event: ", facto_id |-> event.facto_id,
     expected |-> Prefix16(expectedPrevHash), got |-> Prefix16(event.proof.prev_hash)]

\* VerifyChain, lines 588-594: the error entries of the loop over the hashes
hashErrors(evs) ==
    LET bad == SelectSeq(evs, LAMBDA e : ~verifyHash(e))
    IN  [i \in 1..Len(bad) |-> HashError(bad[i])]

\* VerifyChain, lines 596-602: the error entries of the loop over the signatures
signatureErrors(evs) ==
    LET bad == SelectSeq(evs, LAMBDA e : ~verifySignature(e))
    IN  [i \in 1..Len(bad) |-> SignatureError(bad[i])]

\* mutant: after a mismatch the expected value is not advanced
RECURSIVE chainLoopStuck(_, _, _)
chainLoopStuck(evs, expectedPrevHash, acc) ==
    IF Len(evs) = 0 THEN acc
    ELSE LET event == evs[1]
         IN  IF event.proof.prev_hash # expectedPrevHash
             THEN IF hashLen(expectedPrevHash) < 16 \/ hashLen(event.proof.prev_hash) < 16
                  THEN [acc EXCEPT !.panic = TRUE]
                  ELSE chainLoopStuck(Tail(evs), expectedPrevHash,
                          [acc EXCEPT !.valid = FALSE,
                                      !.errors = Append(@, ChainError(event, expectedPrevHash))])
             ELSE chainLoopStuck(Tail(evs), event.proof.event_hash, acc)

\* VerifyChain, lines 604-614: the loop over the prev_hash links; slicing a
\* string shorter than 16 characters panics
RECURSIVE chainLoop(_, _, _)
chainLoop(evs, expectedPrevHash, acc) ==
    IF Len(evs) = 0 THEN acc
    ELSE LET event == evs[1]
         IN  IF event.proof.prev_hash # expectedPrevHash
             THEN IF hashLen(expectedPrevHash) < 16 \/ hashLen(event.proof.prev_hash) < 16
                  THEN [acc EXCEPT !.panic = TRUE]
                  ELSE chainLoop(Tail(evs), event.proof.event_hash,
                          [acc EXCEPT !.valid = FALSE,
                                      !.errors = Append(@, ChainError(event, expectedPrevHash))])
             ELSE chainLoop(Tail(evs), event.proof.event_hash, acc)

\* hex of SHA-256 of the concatenated event hashes
sessionHashOf(evs) ==
    LET RECURSIVE hashConcat(_)
        hashConcat(es) == IF Len(es) = 0 THEN <<>>
                          ELSE es[1].proof.event_hash \o hashConcat(Tail(es))
    IN  <<Punct("sha-256")>> \o hashConcat(evs)

\* gin.Recovery(): the answer to a request whose handler panicked
RecoveredPanic(op) == [op |-> op, status |-> 500, panic |-> TRUE]

\* Handlers.VerifyChain from the fetch of the session's events on; sorted is
\* the slice as sort.Slice left it
verifyChainResponse(sorted) ==
    LET hashes == [valid |-> hashErrors(sorted) = <<>>, errors |-> hashErrors(sorted)]
        signatures == [valid |-> signatureErrors(sorted) = <<>>,
                       errors |-> signatureErrors(sorted)]
        chain == chainLoop(sorted, ZeroHash,
                           [valid |-> TRUE, errors |-> <<>>, panic |-> FALSE])
    IN  IF chain.panic THEN RecoveredPanic("verify_chain")
        ELSE [op |-> "verify_chain", status |-> 200, panic |-> FALSE,
              valid |-> hashes.valid /\ signatures.valid /\ chain.valid,
              event_count |-> Len(sorted),
              checks |-> [all_hashes_valid |-> hashes.valid,
                          all_signatures_valid |-> signatures.valid,
                          chain_integrity_valid |-> chain.valid],
              first_event |-> sorted[1].facto_id,
              last_event |-> Last(sorted).facto_id,
              session_hash |-> sessionHashOf(sorted),
              errors |-> hashes.errors \o signatures.errors \o chain.errors]

NotFound(op) == [op |-> op, status |-> 404, panic |-> FALSE]

\* Handlers.GetSessionEvents, GET /v1/sessions/:session_id/events
sessionEventsResponse(scan, limit, cursor) ==
    LET queryLimit == IF limit <= 0 \/ limit > 1000 THEN 100 ELSE limit
        page == GetSessionEvents(scan, queryLimit, cursor)
    IN  [op |-> "get_session_events", status |-> 200, panic |-> FALSE,
         events |-> page.events, next_cursor |-> page.nextCursor]

\* Handlers.GetEvidencePackage from the fetch of the session's events on
evidencePackageResponse(evs) ==
    LET hashes == [i \in 1..Len(evs) |-> evs[i].proof.event_hash]
        tree == buildMerkleTree(hashes)
    IN  [op |-> "evidence_package", status |-> 200, panic |-> FALSE,
         events |-> evs,
         merkle_proofs |-> [i \in 1..Len(evs) |->
                               [facto_id |-> evs[i].facto_id,
                                event_hash |-> evs[i].proof.event_hash,
                                proof |-> getProof(tree, i - 1),
                                root |-> tree.root]]]

\* ------------------------------------------------ the session and its readers
\* the options of the record() calls of the session
SessionRecordOptions ==
    LET plain == [actionType |-> JStr("llm_call"),
                  inputData |-> JObj(EmptyObject),
                  outputData |-> JObj(EmptyObject),
                  status |-> JUndefined,
                  parentFactoId |-> JUndefined,
                  executionMeta |-> [modelId |-> JUndefined, modelHash |-> JUndefined,
                                     temperature |-> JUndefined, seed |-> JUndefined,
                                     maxTokens |-> JUndefined, toolCalls |-> JUndefined,
                                     tags |-> EmptyObject],
                  startedAt |-> JUndefined,
                  completedAt |-> JUndefined]
    IN  {plain,
         [plain EXCEPT !.inputData = JObj([q |-> JStr("a")]),
                       !.executionMeta.modelId = JStr("m"),
                       !.executionMeta.temperature = JDec("0.7"),
                       !.executionMeta.seed = JNum(1),
                       !.executionMeta.toolCalls = JArr(<<JObj([name |-> JStr("t")])>>)]}

\* record(), lines 108-161, and toWireFormat: the signed event sent to ingest
signedEventOf(factoId, options, now, prev) ==
    LET wire == eventWireOf(factoId, options, now, prev)
        signed == signEvent(Config.privateKey, wire)
    IN  toWireFormat(factoEventOf(factoId, options, now, signed[2], prev, signed[1]))

\* a string that base64.StdEncoding.DecodeString rejects
MalformedBase64 == [t |-> "b64", bytes |-> [t |-> "error"]]

\* base64 of 31 bytes
ShortKeyBase64 == toBase64([t |-> "bytes", len |-> 31])

\* what a publisher other than the SDK can put on the stream: an event with one
\* defect in its proof
Defects == {"prev_other", "prev_short", "prev_empty", "hash_short", "signature", "public_key"}

defectiveEventOf(defect, factoId, now, prev) ==
    LET options == CHOOSE o \in SessionRecordOptions : o.inputData = JObj(EmptyObject)
        e == signedEventOf(factoId, options, now, prev)
    IN  CASE defect = "prev_other" -> signedEventOf(factoId, options, now, OtherHash)
          [] defect = "prev_short" -> signedEventOf(factoId, options, now, ShortHash)
          [] defect = "prev_empty" -> signedEventOf(factoId, options, now, EmptyString)
          [] defect = "hash_short" -> [e EXCEPT !.proof.event_hash = ShortHash]
          [] defect = "signature" -> [e EXCEPT !.proof.signature = MalformedBase64]
          [] defect = "public_key" -> [e EXCEPT !.proof.public_key = ShortKeyBase64]

\* prev_hash of the client after the events published so far
sessionPrevHash(published) ==
    IF Len(published) = 0 THEN ZeroHash ELSE Last(published).proof.event_hash

\* currentTimeNs() of the next record() call: the clock starts at 1 and, from
\* one call to the next, stands still or advances by one
SessionTimes(published) ==
    {t \in 1..MaxSessionTime :
        IF Len(published) = 0 THEN t = 1
        ELSE LET last == Last(published).completed_at.n
             IN  t = last \/ t = last + 1}

\* the session is an unbroken chain of events that pass the SDK's verifyEvent
Intact(published) ==
    \A i \in DOMAIN published :
        /\ published[i].proof.prev_hash = sessionPrevHash(SubSeq(published, 1, i - 1))
        /\ verifyEvent(published[i]) = [hash_valid |-> TRUE, signature_valid |-> TRUE]

SessionIdle ==
    /\ qPublished = <<>>
    /\ qBySession = {}
    /\ qResponse = <<>>
    /\ qPrevious = <<>>

ListIdle ==
    /\ qEvents = {}
    /\ qList = <<>>

QueryIdle == SessionIdle /\ ListIdle

QueryStart == QueryIdle

\* StoreBatch of a batch of one event, its write to events_by_session
StoreSessionEvent(event) ==
    /\ qPublished' = Append(qPublished, event)
    /\ qBySession' = UpsertSession(qBySession, sessionRowOf(eventDataOf(event)))
    /\ qResponse' = <<>>
    /\ qPrevious' = <<>>

\* an event recorded by the SDK is processed
StoreRecorded ==
    /\ Len(qPublished) < MaxSessionEvents
    /\ \E options \in SessionRecordOptions, now \in SessionTimes(qPublished) :
          StoreSessionEvent(signedEventOf(generateFactoId(Len(qPublished) + 1), options,
                                          JNum(now), sessionPrevHash(qPublished)))
    /\ UNCHANGED <<listVars, sdkVars, merkleVars, redeliverVars, sendVars, procVars>>

\* an event with a defective proof is published into a session that was
\* intact so far, and processed
StoreDefective ==
    /\ Len(qPublished) < MaxSessionEvents
    /\ Intact(qPublished)
    /\ \E defect \in Defects, now \in SessionTimes(qPublished) :
          StoreSessionEvent(defectiveEventOf(defect, generateFactoId(Len(qPublished) + 1),
                                             JNum(now), sessionPrevHash(qPublished)))
    /\ UNCHANGED <<listVars, sdkVars, merkleVars, redeliverVars, sendVars, procVars>>

\* GET /v1/sessions/:session_id/events?limit= without a cursor: the first page
GetSessionEventsRequest ==
    /\ \E scan \in SessionScans(qBySession), limit \in {0, 1} :
          qResponse' = <<sessionEventsResponse(scan, limit, EmptyString)>>
    /\ qPrevious' = <<>>
    /\ UNCHANGED <<qPublished, qBySession, listVars, sdkVars, merkleVars, redeliverVars, sendVars, procVars>>

\* GET /v1/sessions/:session_id/events?limit=&cursor=: the client passes the
\* next_cursor of the page it got last
FollowNextCursor ==
    /\ qResponse # <<>>
    /\ qResponse[1].op = "get_session_events"
    /\ qResponse[1].next_cursor # JNull
    /\ \E scan \in SessionScans(qBySession), limit \in {0, 1} :
          qResponse' = <<sessionEventsResponse(scan, limit, qResponse[1].next_cursor)>>
    /\ qPrevious' = qResponse
    /\ UNCHANGED <<qPublished, qBySession, listVars, sdkVars, merkleVars, redeliverVars, sendVars, procVars>>

\* Handlers.VerifyChain; the order in which the rows were scanned is lost in
\* the sort, which can leave the events in any ascending order
VerifyChain ==
    /\ LET scan == CHOOSE x \in SessionScans(qBySession) : TRUE
           evs == GetSessionEvents(scan, 10000, EmptyString).events
       IN  IF Len(evs) = 0
           THEN qResponse' = <<NotFound("verify_chain")>>
           ELSE \E sorted \in SortedByCompletedAt(evs) :
                   qResponse' = <<verifyChainResponse(sorted)>>
    /\ UNCHANGED <<qPublished, qBySession, listVars, sdkVars, merkleVars, redeliverVars, sendVars, procVars>>
    /\ qPrevious' = <<>>

\* Handlers.GetEvidencePackage, GET /v1/evidence-package
GetEvidencePackage ==
    /\ \E scan \in SessionScans(qBySession) :
          LET evs == GetSessionEvents(scan, 10000, EmptyString).events
          IN  IF Len(evs) = 0
              THEN qResponse' = <<NotFound("evidence_package")>>
              ELSE qResponse' = <<evidencePackageResponse(evs)>>
    /\ UNCHANGED <<qPublished, qBySession, listVars, sdkVars, merkleVars, redeliverVars, sendVars, procVars>>
    /\ qPrevious' = <<>>

\* the segments of a route pattern that stand for a path parameter
RouteParams == {":facto_id", ":session_id"}

\* main(), lines 74-88: the routes registered on the gin router
Routes ==
    {<<"GET", <<"health">>>>,
     <<"GET", <<"metrics">>>>,
     <<"GET", <<"v1", "events">>>>,
     <<"GET", <<"v1", "events", ":facto_id">>>>,
     <<"GET", <<"v1", "sessions", ":session_id", "events">>>>,
     <<"POST", <<"v1", "verify">>>>,
     <<"GET", <<"v1", "evidence-package">>>>}

\* the router's lookup: a route of the method whose pattern matches the path
\* segment by segment
Routed(method, path) ==
    \E route \in Routes :
        /\ route[1] = method
        /\ Len(route[2]) = Len(path)
        /\ \A i \in DOMAIN path : route[2][i] \in RouteParams \/ route[2][i] = path[i]

\* requests for paths of the verification surface
VerifyRequests ==
    {<<"GET", <<"v1", "verify", "chain">>>>,
     <<"GET", <<"v1", "verify">>>>,
     <<"POST", <<"v1", "verify", "chain">>>>}

\* the router's answer to a request that no route matches
NoRoute(method, path) ==
    [op |-> "no_route", status |-> 404, panic |-> FALSE, method |-> method, path |-> path]

\* router.ServeHTTP for a request of the verification surface that has no
\* route; GET /v1/verify/chain reaches Handlers.VerifyChain if it has one
ServeVerifyRequest ==
    /\ \E request \in VerifyRequests :
          IF Routed(request[1], request[2])
          THEN request = <<"GET", <<"v1", "verify", "chain">>>> /\ VerifyChain
          ELSE /\ qResponse' = <<NoRoute(request[1], request[2])>>
               /\ UNCHANGED <<qPublished, qBySession, listVars, sdkVars, merkleVars, redeliverVars, sendVars, procVars>>
               /\ qPrevious' = <<>>

QueryNext ==
    \/ StoreRecorded
    \/ StoreDefective
    \/ GetSessionEventsRequest
    \/ FollowNextCursor
    \/ VerifyChain
    \/ GetEvidencePackage
    \/ ServeVerifyRequest

\* ------------------------------------------------ list by agent and time window
\* the events published to the list model, and the clock ticks they can carry
MaxListEvents == 3

MaxListTime == 3

\* the largest limit a request asks for; 0 stands for an absent limit
MaxLimit == 2

\* 24 * time.Hour in ticks of the model's clock: one tick is half a day
Day == 2

\* time.Time.Truncate(d) of the instant t ticks after the epoch
Truncate(t, d) == t - (t % d)

\* StoreBatch, lines 68-69: the partition date of an event
eventDate(completedAt) == Truncate(completedAt.n, Day)

\* storeEventsBatch: the columns of the row inserted into events that the
\* list query reads back, and the partition date
eventsRowOf(e) ==
    [date |-> eventDate(e.completedTime),
     model_hash |-> e.modelHash,
     seed |-> e.seed,
     max_tokens |-> e.maxTokens,
     tool_calls |-> e.toolCalls] @@ sessionRowOf(e)

\* the iter.Scan loop body of Storage.GetEvents: one row read back
scanEventsRow(row) ==
    buildEventResponse(row.facto_id, row.agent_id, row.session_id, row.parent_facto_id,
                       row.action_type, row.status, row.input_data, row.output_data,
                       row.model_id, row.model_hash, row.temperature, row.seed,
                       row.max_tokens, row.tool_calls,
                       row.sdk_version, row.sdk_language, row.tags,
                       row.signature, row.public_key, row.prev_hash, row.event_hash,
                       row.started_at, row.completed_at)

\* the rows of table events in clustering order: inside a partition ascending
\* completed_at, rows of equal completed_at in any order
EventsScans(rows) ==
    {s \in [1..Cardinality(rows) -> rows] :
        /\ \A i, j \in DOMAIN s : i # j => s[i] # s[j]
        /\ \A i, j \in DOMAIN s : i < j => s[i].completed_at.n <= s[j].completed_at.n}

RECURSIVE datesFrom(_, _)
\* getDateRange's loop: for !current.After(endDate) { append; current += 24h }
datesFrom(current, endDate) ==
    IF current > endDate THEN <<>>
    ELSE <<current>> \o datesFrom(current + Day, endDate)

\* mutant of getDateRange: the first key is start itself, not its day
getDateRangeFromStart(start, end) == datesFrom(start, Truncate(end, Day))

\* getDateRange(start, end time.Time) []time.Time
getDateRange(start, end) == datesFrom(Truncate(start, Day), Truncate(end, Day))

\* SELECT ... FROM events WHERE agent_id = ? AND date = ? AND completed_at >= ?
\* AND completed_at <= ? LIMIT ?
selectEvents(scan, agentID, date, start, end, limit) ==
    LET matching(r) == /\ r.agent_id = agentID
                       /\ r.date = date
                       /\ r.completed_at.n >= start
                       /\ r.completed_at.n <= end
        rows == SelectSeq(scan, matching)
    IN  SubSeq(rows, 1, IF Len(rows) < limit THEN Len(rows) ELSE limit)

RECURSIVE scanPartition(_, _, _)
\* the iter.Scan loop of Storage.GetEvents, lines 78-99
scanPartition(evs, rows, limit) ==
    IF Len(rows) = 0 THEN evs
    ELSE LET evs2 == Append(evs, scanEventsRow(Head(rows)))
         IN  IF Len(evs2) >= limit THEN evs2
             ELSE scanPartition(evs2, Tail(rows), limit)

RECURSIVE scanDates(_, _, _, _, _, _, _)
\* the loop over the dates of Storage.GetEvents, lines 46-109
scanDates(evs, dates, scan, agentID, start, end, limit) ==
    IF Len(dates) = 0 THEN evs
    ELSE LET rows == selectEvents(scan, agentID, Head(dates), start, end, limit + 1)
             evs2 == scanPartition(evs, rows, limit)
         IN  IF Len(evs2) >= limit THEN evs2
             ELSE scanDates(evs2, Tail(dates), scan, agentID, start, end, limit)

\* Storage.GetEvents(ctx, agentID, start, end, limit, cursor): the cursor is
\* not read
GetEvents(scan, agentID, start, end, limit) ==
    LET evs == scanDates(<<>>, getDateRange(start, end), scan, agentID, start, end, limit)
    IN  IF Len(evs) > limit
        THEN [events |-> SubSeq(evs, 1, limit),
              nextCursor |-> toBase64(evs[limit].facto_id)]
        ELSE [events |-> evs, nextCursor |-> JNull]

\* the text of an RFC3339 timestamp for the instant n, and a text that is none
RFC3339(n) == [t |-> "rfc3339", unix |-> n]

NotATime == [t |-> "text", unix |-> 0]

\* time.Parse(time.RFC3339, text)
time_Parse(text) == [err |-> text.t # "rfc3339", time |-> text.unix]

\* Handlers.GetEvents, GET /v1/events?agent_id=&start=&end=&limit=
eventsResponse(scan, query) ==
    LET queryLimit == IF query.limit <= 0 \/ query.limit > 1000 THEN 100 ELSE query.limit
        startTime == time_Parse(query.start)
        endTime == time_Parse(query.end)
        page == GetEvents(scan, query.agent_id, startTime.time, endTime.time, queryLimit)
    IN  IF startTime.err
        THEN [op |-> "get_events", status |-> 400, error |-> "invalid start time format"]
        ELSE IF endTime.err
        THEN [op |-> "get_events", status |-> 400, error |-> "invalid end time format"]
        ELSE [op |-> "get_events", status |-> 200,
              events |-> page.events, next_cursor |-> page.nextCursor]

\* the agents that publish events: the SDK client of the model and one other
ListAgents == {Config.agentId, JStr("other")}

\* the query strings of the requests
EventsQueries ==
    [agent_id : {Config.agentId},
     start : {RFC3339(n) : n \in 0..MaxListTime} \cup {NotATime},
     end : {RFC3339(n) : n \in 0..MaxListTime} \cup {NotATime},
     limit : 0..MaxLimit]

\* completed_at of the next published event: the clock starts at 1 and, from
\* one event to the next, stands still or advances by one tick
ListTimes(rows) ==
    {t \in 1..MaxListTime :
        IF rows = {} THEN t = 1
        ELSE \E last \in rows :
                /\ \A r \in rows : r.completed_at.n <= last.completed_at.n
                /\ (t = last.completed_at.n \/ t = last.completed_at.n + 1)}

\* an event of one of the agents, as its SDK client signs it
listEventOf(agent, uuid, now) ==
    LET options == CHOOSE o \in SessionRecordOptions : o.inputData = JObj(EmptyObject)
    IN  [signedEventOf(generateFactoId(uuid), options, JNum(now), ZeroHash)
            EXCEPT !.agent_id = agent]

ListStart == ListIdle

\* StoreBatch of a batch of one event, its write to events
StoreListEvent ==
    /\ Cardinality(qEvents) < MaxListEvents
    /\ \E agent \in ListAgents, now \in ListTimes(qEvents) :
          qEvents' = qEvents \cup
              {eventsRowOf(eventDataOf(listEventOf(agent, Cardinality(qEvents) + 1, now)))}
    /\ qList' = <<>>
    /\ UNCHANGED <<sessionVars, sdkVars, merkleVars, redeliverVars, sendVars, procVars>>

\* GET /v1/events; the handler only reads, so one exchange is kept per state
\* of the table
GetEventsRequest ==
    /\ qList = <<>>
    /\ \E scan \in EventsScans(qEvents), query \in EventsQueries :
          qList' = <<[query |-> query, response |-> eventsResponse(scan, query)]>>
    /\ UNCHANGED <<qEvents, sessionVars, sdkVars, merkleVars, redeliverVars, sendVars, procVars>>

ListNext ==
    \/ StoreListEvent
    \/ GetEventsRequest

SdkIdle == ClientIdle /\ VerifyIdle

Init == ProcStart /\ MerkleIdle /\ SdkIdle /\ QueryIdle /\ SendIdle /\ RedeliverIdle

Next ==
    \/ PullerCtxDone
    \/ PullerDefault
    \/ \E k \in 0..BatchSize : PullerFetch(k)
    \/ PullerSend
    \/ MainCtxDone
    \/ MainRecv
    \/ MainRecvClosed
    \/ MainTick
    \/ Cancel

Spec == Init /\ [][Next]_vars

\* ---- the running processor under the assumptions of eventual delivery
\* the outcomes of a StoreBatch whose three table batches succeeded
AllOk == <<"ok", "ok", "ok">>

\* storage writes eventually succeed: a flush fails only while the broker can
\* still redeliver every message that waits for a delivery
StorageRecovers ==
    (batchesProcessed' # batchesProcessed /\ lastStore' # AllOk) =>
        MaxDeliveries - TotalDeliveries >= Cardinality({m \in Msgs : stream'[m] = "ready"})

\* every published message is decodable and the context is never cancelled
LiveInit == Init /\ badMsgs = {}

LiveRecv == MainRecv /\ StorageRecovers

LiveTick == MainTick /\ StorageRecovers

\* Fetch returns at least one of the messages that wait for a delivery
LiveFetch == \E k \in 1..BatchSize : PullerFetch(k)

LiveNext ==
    \/ PullerDefault
    \/ PullerFetch(0)
    \/ LiveFetch
    \/ PullerSend
    \/ LiveRecv
    \/ LiveTick

\* the goroutines are scheduled fairly, select takes every case that stays
\* ready, and the broker redelivers what was NAKed
Fairness ==
    /\ WF_vars(PullerDefault)
    /\ SF_vars(LiveFetch)
    /\ WF_vars(PullerSend)
    /\ WF_vars(LiveRecv)
    /\ WF_vars(LiveTick)

SpecLive == LiveInit /\ [][LiveNext]_vars /\ Fairness

\* ---- the processor started on a stream that holds one message more than
\* the channel, all of them decodable
BacklogStart ==
    /\ badMsgs = {}
    /\ wrongLenMsgs = {}
    /\ stream = [m \in BacklogMsgs |-> "ready"]
    /\ deliveries = [m \in BacklogMsgs |-> 0]
    /\ fetched = <<>>
    /\ pullerPc = "select"
    /\ msgChan = <<>>
    /\ chanClosed = FALSE
    /\ cancelled = FALSE
    /\ mainPc = "loop"
    /\ events = <<>>
    /\ messages = <<>>
    /\ tEvents = {}
    /\ tByFactoID = {}
    /\ tBySession = {}
    /\ merkleRoots = <<>>
    /\ acks = [d \in {Delivery(m, n) : m \in BacklogMsgs, n \in 1..MaxDeliveries} |-> 0]
    /\ naks = [d \in {Delivery(m, n) : m \in BacklogMsgs, n \in 1..MaxDeliveries} |-> 0]
    /\ eventsProcessed = 0
    /\ eventsFailedTotal = 0
    /\ batchesProcessed = 0
    /\ lastStore = <<"ok", "ok", "ok">>
    /\ replays = 0

BacklogInit == BacklogStart /\ MerkleIdle /\ SdkIdle /\ QueryIdle /\ SendIdle /\ RedeliverIdle

\* Fetch returns after FetchMaxWait at the latest
SomeFetch == \E k \in 0..BatchSize : PullerFetch(k)

\* both goroutines are scheduled fairly and select takes a case that stays
\* ready; when and whether the context is cancelled is up to the environment
BacklogFairness ==
    /\ WF_vars(PullerCtxDone)
    /\ WF_vars(PullerDefault)
    /\ WF_vars(SomeFetch)
    /\ WF_vars(PullerSend)
    /\ WF_vars(MainCtxDone)
    /\ WF_vars(MainRecv)
    /\ WF_vars(MainRecvClosed)

SpecBacklog == BacklogInit /\ [][Next]_vars /\ BacklogFairness

MerkleInit == MerkleStart /\ ProcIdle /\ SdkIdle /\ QueryIdle /\ SendIdle /\ RedeliverIdle

SpecMerkle == MerkleInit /\ [][MerkleNext]_vars

ClientInit == ClientStart /\ VerifyIdle /\ MerkleIdle /\ ProcIdle /\ QueryIdle /\ SendIdle /\ RedeliverIdle

SpecClient == ClientInit /\ [][ClientNext]_vars

VerifyInit == VerifyStart /\ ClientIdle /\ MerkleIdle /\ ProcIdle /\ QueryIdle /\ SendIdle /\ RedeliverIdle

SpecVerify == VerifyInit /\ [][VerifyNext]_vars

QueryInit == QueryStart /\ SdkIdle /\ MerkleIdle /\ ProcIdle /\ SendIdle /\ RedeliverIdle

SpecQuery == QueryInit /\ [][QueryNext]_vars

ListInit == ListStart /\ SessionIdle /\ SdkIdle /\ MerkleIdle /\ ProcIdle /\ SendIdle /\ RedeliverIdle

SpecList == ListInit /\ [][ListNext]_vars

SendInit == SendStart /\ SdkIdle /\ QueryIdle /\ MerkleIdle /\ ProcIdle /\ RedeliverIdle

SpecSend == SendInit /\ [][SendNext]_vars

RedeliverInit == RedeliverStart /\ SdkIdle /\ QueryIdle /\ MerkleIdle /\ ProcIdle /\ SendIdle

SpecRedeliver == RedeliverInit /\ [][RedeliverNext]_vars /\ RedeliverFairness

\* ------------------------------------------------ Merkle claims
\* the verifier's fold of a proof against a leaf (spec 4.2; VerifyProof's loop)
FoldProof(leaf, proof) == VerifyProofFold(leaf, proof, 1)

\* C8: Merkle round-trip.  For every non-empty leaf list and every index
\* i < |E|, folding the proof returned for i against leaf E[i] reproduces the
\* root, in the processor's engine (BuildMerkleTree / GetProof / VerifyProof)
\* and in the query service's engine (buildMerkleTree / getProof).
C8_MerkleRoundTrip ==
    /\ (procProof # <<>> /\ procProof[1].index \in 0..(Len(leafList) - 1))
          => VerifyProof(leafList[procProof[1].index + 1], procProof[1].proof,
                         Root(procTree[1]))
    /\ (queryProof # <<>> /\ queryProof[1].index \in 0..(Len(leafList) - 1))
          => FoldProof(leafList[queryProof[1].index + 1], queryProof[1].proof)
                = queryTree[1].root

\* five leaves: an odd leaf count and an odd intermediate level (three parents);
\* the proofs are those of the last leaf, whose sibling is the duplicate
C8_Witness ==
    /\ Len(leafList) = 5
    /\ procProof # <<>> /\ procProof[1].index = 4 /\ Len(procProof[1].proof) = 3
    /\ queryProof # <<>> /\ queryProof[1].index = 4 /\ Len(queryProof[1].proof) = 3

\* C9: for a leaf list with exactly one hash h the Merkle root is h itself,
\* in the processor's engine and in the query service's engine alike.
C9_SingleLeafRootIsLeaf ==
    Len(leafList) = 1 =>
        /\ procTree # <<>> => Root(procTree[1]) = leafList[1]
        /\ queryTree # <<>> => queryTree[1].root = leafList[1]

\* C10: for the empty leaf list the Merkle root is hex(SHA-256("")) and a
\* proof request for any index returns nothing, in both engines.
C10_EmptyRootAndNoProofs ==
    Len(leafList) = 0 =>
        /\ procTree # <<>> => Root(procTree[1]) = Sha256Empty
        /\ queryTree # <<>> => queryTree[1].root = Sha256Empty
        /\ procProof # <<>> => procProof[1].proof = <<>>
        /\ queryProof # <<>> => queryProof[1].proof = <<>>

\* the reference construction of spec 4.2: while the level has more than one
\* node, an odd level gets a duplicate of its last node and adjacent pairs are
\* hashed in order
RECURSIVE ReferencePairs(_)
ReferencePairs(level) ==
    IF Len(level) = 0 THEN <<>>
    ELSE <<hashPair(level[1], level[2])>> \o ReferencePairs(Tail(Tail(level)))

RECURSIVE ReferenceRoot(_)
ReferenceRoot(level) ==
    IF Len(level) = 1 THEN level[1]
    ELSE ReferenceRoot(ReferencePairs(
            IF Len(level) % 2 = 1 THEN level \o <<level[Len(level)]>> ELSE level))

\* C11: for every leaf list with at least two leaves the root of each engine
\* equals the root of the reference construction, the duplication of the last
\* node being applied at every odd level, not only at the leaves.
C11_RootIsReferenceRoot ==
    Len(leafList) >= 2 =>
        /\ procTree # <<>> => Root(procTree[1]) = ReferenceRoot(leafList)
        /\ queryTree # <<>> => queryTree[1].root = ReferenceRoot(leafList)

\* six leaves: three parents, an odd level above the leaves
C11_Witness ==
    /\ Len(leafList) = 6
    /\ leafList[5] # leafList[6]
    /\ procTree # <<>>
    /\ queryTree # <<>>

\* ------------------------------------------------ processor claims
\* the batch a flush of this step works on: the buffer, with the message that
\* handleMessage has just appended when the step is a receive
FlushedBatch ==
    IF Len(msgChan') < Len(msgChan) THEN Append(messages, Head(msgChan)) ELSE messages

\* C1: a message is positively acknowledged only in a flush whose three
\* projection writes all succeeded; hence in every reachable state the event of
\* every acked message is present in all three projection tables.
C1_AckOnlyAfterStore ==
    /\ [](\A d \in Deliveries : acks[d] > 0 => InAllTables(EventOf(d.msg)))
    /\ [][acks' # acks =>
             /\ batchesProcessed' = batchesProcessed + 1
             /\ lastStore' = AllOk
             /\ \A d \in Range(FlushedBatch) : InAllTables(EventOf(d.msg))']_vars

\* a message NAKed by a failed flush that left a partial write, and acked on
\* its redelivery
C1_Witness ==
    \E m \in Msgs :
        /\ naks[Delivery(m, 1)] > 0
        /\ acks[Delivery(m, 2)] > 0
        /\ m \notin badMsgs

\* C2: if any one of the three projection writes of a flush fails, every
\* message of that batch is NAKed, none is acked, the failure counter grows by
\* the batch size and no Merkle-root record is written for that batch.
C2_FailedFlushNaksAll ==
    [][(batchesProcessed' # batchesProcessed /\ \E i \in 1..3 : lastStore'[i] # "ok") =>
          /\ Len(FlushedBatch) > 0
          /\ \A d \in Deliveries :
                naks'[d] = naks[d] + (IF d \in Range(FlushedBatch) THEN 1 ELSE 0)
          /\ acks' = acks
          /\ eventsFailedTotal' = eventsFailedTotal + Len(FlushedBatch)
          /\ merkleRoots' = merkleRoots]_vars

\* a full batch of two whose second table batch alone failed
C2_Witness ==
    /\ batchesProcessed = 1
    /\ lastStore = <<"ok", "fail", "ok">>
    /\ eventsFailedTotal = 2
    /\ naks[Delivery(1, 1)] = 1 /\ naks[Delivery(2, 1)] = 1
    /\ badMsgs = {}

\* C3: when the root context is cancelled while the buffer is non-empty, the
\* loop runs a final flush before Start returns: at exit no buffered message
\* is left neither acked nor NAKed.
C3_ShutdownFlushesBuffer ==
    (mainPc = "returned" /\ cancelled)
        => \A i \in 1..Len(messages) : acks[messages[i]] + naks[messages[i]] > 0

\* ------------------------------------------------ SDK client claims
\* the events of the session as they go on the wire, in the order recorded
RecordedWire == [i \in 1..Len(recorded) |-> toWireFormat(recorded[i])]

\* C4: the events one FactoClient produces, record() calls started
\* concurrently included, form a single chain: the first event's prev_hash is
\* 64 zeros, every later event's prev_hash is the event_hash of the event
\* recorded immediately before it, and no two events carry the same prev_hash.
C4_SingleChain ==
    /\ Len(recorded) > 0 => RecordedWire[1].proof.prev_hash = ZeroHash
    /\ \A i \in 2..Len(recorded) :
          RecordedWire[i].proof.prev_hash = RecordedWire[i - 1].proof.event_hash
    /\ \A i, j \in 1..Len(recorded) :
          i # j => RecordedWire[i].proof.prev_hash # RecordedWire[j].proof.prev_hash

\* two events recorded by calls that both started before either event was
\* pushed, so that both signed over the 64 zeros
C4_Witness ==
    /\ Len(recorded) = 2
    /\ \A c \in {1, 2} :
          /\ calls[c].pc \notin {"new", "signing"}
          /\ calls[c].eventWire.proof.prev_hash = ZeroHash

\* C5: every event record() places in its batch satisfies event_hash =
\* SHA3-256(canonical(event)) over its own emitted fields; the emitted
\* proof.prev_hash is the prev_hash that was hashed and signed, under any
\* interleaving of concurrent record() calls.
C5_EmittedHashAgrees ==
    \A i \in 1..Len(recorded) :
        /\ RecordedWire[i].proof.event_hash
              = computeHash(CryptoProvider_buildCanonicalForm(RecordedWire[i]))
        /\ \A c \in Calls :
              (calls[c].pc \notin {"new", "signing"}
                 /\ calls[c].factoId = RecordedWire[i].facto_id)
              => RecordedWire[i].proof.prev_hash = calls[c].eventWire.proof.prev_hash

\* ------------------------------------------------ canonical form claims
Valid(result) == result.hash_valid /\ result.signature_valid

\* C6: changing the value of any single field of the canonical form of a
\* signed event, without re-signing, makes verification return hash_valid =
\* false or signature_valid = false, in the SDK's verifyEvent and in the Go
\* verifier alike.
C6_TamperDetected ==
    vTampered # <<>> =>
        /\ vSdk # <<>> => ~Valid(vSdk[1])
        /\ vGo # <<>> => ~Valid(vGo[1])

\* C7: the SDK's buildCanonicalForm and the Go verifier's buildCanonicalForm
\* produce the same canonical form for every event, so every event signed by
\* the SDK is hash-valid and signature-valid under the Go verifier.
C7_CanonicalFormsAgree ==
    (vSigned # <<>> /\ vTampered = <<>>) =>
        /\ CryptoProvider_buildCanonicalForm(vEvent) = buildCanonicalForm(vEvent)
        /\ vGo # <<>> => Valid(vGo[1])

\* ------------------------------------------------ query service claims
\* the events of the session as read back, in every ascending completed_at order
SessionWalks ==
    {[i \in DOMAIN s |-> scanSessionRow(s[i])] : s \in SessionScans(qBySession)}

\* the positions of a walk whose prev_hash is not the event_hash before it
ChainFailures(walk) ==
    {i \in DOMAIN walk :
        walk[i].proof.prev_hash #
            (IF i = 1 THEN ZeroHash ELSE walk[i - 1].proof.event_hash)}

ChainErrorsOf(response) ==
    SelectSeq(response.errors, LAMBDA x : x.msg = "Chain broken at event: ")

ChainAnswered ==
    /\ qResponse # <<>>
    /\ qResponse[1].op = "verify_chain"
    /\ qResponse[1].status = 200

C13_VerifyNeverPanics ==
    (qResponse # <<>> /\ qResponse[1].op = "verify_chain") => ~qResponse[1].panic

\* ------------------------------------------------ processor claims, continued
Tables == <<tEvents, tByFactoID, tBySession>>

\* the keys of a table and the event_hash stored under each
KeysAndHashes(table) == {[FactoID |-> r.FactoID, EventHash |-> r.EventHash] : r \in table}

C15_EventuallyStored ==
    /\ \A m \in Msgs :
          <>[](stream[m] = "acked" /\ InAllTables(EventOf(m)))
    /\ \A m \in Msgs :
          (\E i \in 1..3 : Holds(Tables[i], EventOf(m))) ~> InAllTables(EventOf(m))

\* every message is acked and stored, one of them on the redelivery that
\* followed the NAK of a failed flush
C15_Witness ==
    /\ \A m \in Msgs : stream[m] = "acked" /\ InAllTables(EventOf(m))
    /\ eventsFailedTotal = 1
    /\ \E m \in Msgs :
          /\ naks[Delivery(m, 1)] = 1
          /\ acks[Delivery(m, 2)] = 1
          /\ \E r \in tBySession : r.FactoID = m /\ r.received_at > 1

\* C16: a flush whose three projection writes succeeded and whose Merkle-root
\* record was not persisted still acks every message of the batch once, NAKs
\* none, counts the events as processed, and the rows it wrote are in the tables
C16_RootFailureStillAcks ==
    [][(batchesProcessed' # batchesProcessed /\ lastStore' = AllOk
            /\ merkleRoots' = merkleRoots) =>
          /\ Len(FlushedBatch) > 0
          /\ \A d \in Deliveries :
                acks'[d] = acks[d] + (IF d \in Range(FlushedBatch) THEN 1 ELSE 0)
          /\ naks' = naks
          /\ eventsFailedTotal' = eventsFailedTotal
          /\ eventsProcessed' = eventsProcessed + Len(FlushedBatch)
          /\ \A d \in Range(FlushedBatch) :
                \A i \in 1..3 : rowOf(EventOf(d.msg), timeNow) \in Tables'[i]]_vars

\* a stored and acked batch of two without a Merkle-root record
C16_Witness ==
    /\ batchesProcessed = 1
    /\ lastStore = AllOk
    /\ merkleRoots = <<>>
    /\ eventsProcessed = 2
    /\ acks[Delivery(1, 1)] = 1 /\ acks[Delivery(2, 1)] = 1
    /\ InAllTables(EventOf(1)) /\ InAllTables(EventOf(2))

\* C17: a malformed message, undecodable or with a public key or signature of
\* the wrong length, never enters the event buffer and is never written to a
\* projection table or to the leaf list of a Merkle-root record
C17_MalformedDropped ==
    \A m \in badMsgs \cup wrongLenMsgs :
        /\ \A i \in DOMAIN events : events[i].FactoID # m
        /\ \A i \in DOMAIN messages : messages[i].msg # m
        /\ \A i \in 1..3 : ~Holds(Tables[i], EventOf(m))
        /\ \A k \in DOMAIN merkleRoots :
              EventOf(m).EventHash \notin Range(merkleRoots[k].event_hashes)

\* C18: a flush with nothing buffered, run by the ticker or at shutdown (a
\* step of the main loop other than a receive), calls no storage, writes no Merkle-root row, sends no Ack or Nak and leaves
\* buffer and counters as they were
C18_EmptyFlushIsNoOp ==
    [][(Len(events) = 0 /\ msgChan' = msgChan /\ UNCHANGED <<pullerVars, chanClosed>>) =>
          UNCHANGED <<events, messages, tableVars, acks, naks, counterVars, lastStore,
                      stream>>]_vars

\* Start has returned through the shutdown case with nothing buffered, before
\* the puller closed the channel, and no batch was ever processed
C18_Witness ==
    /\ mainPc = "returned"
    /\ ~chanClosed
    /\ Len(events) = 0
    /\ batchesProcessed = 0
    /\ merkleRoots = <<>>
    /\ \E m \in Msgs : deliveries[m] > 0

\* C19: whole-chain verify of an intact, non-empty session of SDK-signed events, read
\* back through events_by_session, answers 200 with valid and the three checks
\* true and event_count the number of events, and every event read back has
\* the canonical form of the event that was published
C19_StoredSessionVerifies ==
    (qResponse # <<>> /\ qResponse[1].op = "verify_chain"
        /\ Len(qPublished) > 0 /\ Intact(qPublished)) =>
        /\ qResponse[1].status = 200
        /\ qResponse[1].valid
        /\ qResponse[1].checks.all_hashes_valid
        /\ qResponse[1].checks.all_signatures_valid
        /\ qResponse[1].checks.chain_integrity_valid
        /\ qResponse[1].event_count = Len(qPublished)
        /\ \A row \in qBySession : \E i \in DOMAIN qPublished :
              buildCanonicalForm(scanSessionRow(row)) = buildCanonicalForm(qPublished[i])

\* C20: every session endpoint answers 404 for a session with no stored events
C20_EmptySessionIs404 ==
    (qResponse # <<>> /\ qBySession = {}) => qResponse[1].status = 404

\* a flush of a non-empty buffer runs in this step
FlushRuns == batchesProcessed' = batchesProcessed + 1

\* C25: after handleMessage the buffer holds fewer than batch_size events, a
\* tick with a non-empty buffer runs a flush, and a flush runs only when a
\* received event fills the buffer, on a tick, or at shutdown
C25_FlushTriggers ==
    [][/\ MainRecv => Len(events') < BatchSize
       /\ (MainTick /\ Len(events) > 0) => FlushRuns
       /\ FlushRuns =>
             \/ MainRecv /\ Len(events) + 1 = BatchSize
             \/ MainTick
             \/ MainCtxDone]_vars

\* a flush has run with the buffer below batch_size, and an event is buffered
C25_Witness ==
    /\ batchesProcessed > 0
    /\ eventsProcessed + eventsFailedTotal = 1
    /\ Len(events) = BatchSize - 1
    /\ ~cancelled

\* C26: after every flush of a non-empty buffer, whether the storage writes
\* succeeded or failed, both buffers are empty; after a failed one every
\* message of the batch was NAKed and waits at the broker for redelivery
C26_FlushClearsBuffers ==
    [][FlushRuns =>
          /\ events' = <<>>
          /\ messages' = <<>>
          /\ StoreBatchErr(lastStore') =>
                \A i \in DOMAIN FlushedBatch :
                    /\ naks'[FlushedBatch[i]] > naks[FlushedBatch[i]]
                    /\ stream'[FlushedBatch[i].msg] = "ready"]_vars

\* a full batch failed in storage: both buffers are empty, both messages wait
\* for redelivery and no table holds their events
C26_Witness ==
    /\ batchesProcessed = 1
    /\ eventsFailedTotal = BatchSize
    /\ events = <<>> /\ messages = <<>>
    /\ \A m \in Msgs : stream[m] = "ready" /\ deliveries[m] = 1 /\ ~InAllTables(EventOf(m))

\* the events of the batch a flush of this step works on
FlushedEvents == [i \in DOMAIN FlushedBatch |-> EventOf(FlushedBatch[i].msg)]

C29_QueuesBounded ==
    /\ [](/\ Len(msgChan) <= BatchSize
          /\ Len(events) <= BatchSize
          /\ Len(messages) <= BatchSize
          /\ Len(fetched) <= BatchSize)
    /\ [][(Len(msgChan) = BatchSize /\ pullerPc = "send") =>
            /\ UNCHANGED pullerVars
            /\ Len(msgChan') <= Len(msgChan)]_vars

\* the channel is full and the puller holds a message it cannot send
C29_Witness ==
    /\ Len(msgChan) = BatchSize
    /\ pullerPc = "send"
    /\ Len(fetched) > 0
    /\ mainPc = "loop"

C23_UnsignedFieldsIgnored ==
    /\ vSdk # <<>> => verifyEvent(vEvent) = vSdk[1]
    /\ vGo # <<>> => vGo[1] = [hash_valid |-> verifyHash(vEvent),
                               signature_valid |-> verifySignature(vEvent)]
    /\ (vSigned # <<>> /\ vTampered = <<>>) =>
          /\ CryptoProvider_buildCanonicalForm(vEvent) =
                CryptoProvider_buildCanonicalForm(vSigned[1])
          /\ buildCanonicalForm(vEvent) = buildCanonicalForm(vSigned[1])

\* both verifiers gave their verdict on an event that has since been altered
\* in all four fields
C23_Witness ==
    /\ vSdk # <<>> /\ vGo # <<>> /\ vSigned # <<>>
    /\ vSdk[1].hash_valid
    /\ vEvent.execution_meta.model_hash # vSigned[1].execution_meta.model_hash
    /\ vEvent.execution_meta.max_tokens # vSigned[1].execution_meta.max_tokens
    /\ vEvent.execution_meta.tags # vSigned[1].execution_meta.tags
    /\ vEvent.execution_meta.sdk_language # vSigned[1].execution_meta.sdk_language

\* C22: GET /v1/verify/chain is served: the request is never answered with the
\* router's route-not-found response
C22_VerifyChainIsRouted ==
    qResponse # <<>> =>
        ~(/\ qResponse[1].op = "no_route"
          /\ qResponse[1].method = "GET"
          /\ qResponse[1].path = <<"v1", "verify", "chain">>)

\* ------------------------------------------------ list claims
\* the last GET /v1/events request was answered 200
ListAnswered == qList # <<>> /\ qList[1].response.status = 200

\* the limit the handler applies to the answered request
ListLimit == IF qList[1].query.limit <= 0 THEN 100 ELSE qList[1].query.limit

\* the stored events of the request's agent with start <= completed_at <= end
ListMatching ==
    {r \in qEvents : /\ r.agent_id = qList[1].query.agent_id
                     /\ qList[1].query.start.unix <= r.completed_at.n
                     /\ r.completed_at.n <= qList[1].query.end.unix}

\* C21: list by agent/time window returns at most limit events; when more than
\* limit events match, next_cursor is Base64 of the facto_id of the last
\* returned event, and next_cursor is null only when every matching event was
\* returned
C21_NextCursorWhenMore ==
    ListAnswered =>
        LET evs == qList[1].response.events
            cursor == qList[1].response.next_cursor
        IN  /\ Len(evs) <= ListLimit
            /\ Cardinality(ListMatching) > ListLimit =>
                    cursor = toBase64(Last(evs).facto_id)
            /\ cursor = JNull => Cardinality(ListMatching) <= Len(evs)

\* the per-day partition keys of the answered request
ListDates == getDateRange(qList[1].query.start.unix, qList[1].query.end.unix)

\* C24: the partition date of every stored event of the agent inside the
\* window is the UTC day of its completed_at and is one of the keys the window
\* expands into, the keys ascend strictly, and when the limit is not reached
\* the result is exactly the agent's stored events in the window
C24_WindowCoversPartitions ==
    ListAnswered =>
        LET evs == qList[1].response.events
        IN  /\ \A r \in ListMatching :
                  /\ r.date = Truncate(r.completed_at.n, Day)
                  /\ \E i \in DOMAIN ListDates : ListDates[i] = r.date
            /\ \A i, j \in DOMAIN ListDates : i < j => ListDates[i] < ListDates[j]
            /\ Len(evs) < ListLimit =>
                  /\ Range(evs) = {scanEventsRow(r) : r \in ListMatching}
                  /\ Len(evs) = Cardinality(ListMatching)

\* a window that starts inside a day and holds events of two days, next to an
\* event that is outside the window or belongs to another agent
C24_Witness ==
    /\ ListAnswered
    /\ qList[1].query.start.unix % Day # 0
    /\ \E r1, r2 \in ListMatching : r1.date # r2.date
    /\ Len(qList[1].response.events) < ListLimit
    /\ qEvents # ListMatching

\* ------------------------------------------------ claims on the delivery of batches
Rejects(f) == inFlight[f].pc # "rejected" /\ inFlight'[f].pc = "rejected"

Sending(f) == inFlight[f].pc \in {"fetch", "backoff"}

\* C31: when the sendBatch of a flush fails, the step that rejects the flush puts
\* the events it took back in front of the pending batch, in their order and ahead
\* of everything pushed in the meantime, and the caller awaiting it is rejected too
C31_FailedFlushPutsBack ==
    [][\A f \in FlushCalls : Rejects(f) =>
          /\ Sending(f)
          /\ pending' = inFlight[f].events \o pending
          /\ inFlight'[f].events = inFlight[f].events
          /\ \A c \in CloseCalls :
                (closeCalls[c].pc = "awaiting" /\ closeCalls[c].flush = f) =>
                    closeCalls'[c].pc = "rejected"]_vars

C31_Witness ==
    \E f \in FlushCalls :
        LET taken == inFlight[f].events
        IN  /\ inFlight[f].pc = "rejected"
            /\ taken # <<>>
            /\ Len(pending) > Len(taken)
            /\ SubSeq(pending, 1, Len(taken)) = taken
            /\ \A i \in (Len(taken) + 1)..Len(pending) : pending[i] > taken[Len(taken)]

\* C32: a response with a status below 500 that is not OK ends sendBatch at once:
\* the flush is rejected after that request, with no backoff wait and no further
\* attempt, and no sendBatch makes more than maxRetries attempts
C32_ClientErrorsNotRetried ==
    \A f \in FlushCalls :
        /\ inFlight[f].last = "client_error" => inFlight[f].pc = "rejected"
        /\ Sending(f) => inFlight[f].attempt < maxRetries

\* C33: in the step in which a close() call resolves, the flush timer is stopped and
\* no event recorded before the call is in the pending batch
C33_CloseLeavesNothingPending ==
    [][\A c \in CloseCalls :
          (closeCalls[c].pc # "resolved" /\ closeCalls'[c].pc = "resolved") =>
              /\ ~flushTimer'
              /\ \A i \in 1..Len(pending') : pending'[i] > closeCalls'[c].before]_vars

\* C34: a flush that has resolved has had an OK response to a request that
\* carried the events it took from the pending batch
C34_FlushResolvesOnlyOnOk ==
    \A f \in FlushCalls :
        inFlight[f].pc = "resolved" =>
            /\ inFlight[f].last = "ok"
            /\ \E i \in 1..Len(accepted) : accepted[i] = inFlight[f].events

InPending(e) == {i \in 1..Len(pending) : pending[i] = e}

InSendBatch(e) ==
    {<<f, i>> \in FlushCalls \X (1..MaxRecorded) :
        Sending(f) /\ i <= Len(inFlight[f].events) /\ inFlight[f].events[i] = e}

InAccepted(e) ==
    {<<k, i>> \in (1..Len(accepted)) \X (1..MaxRecorded) :
        i <= Len(accepted[k]) /\ accepted[k][i] = e}

\* C35: every event record() has pushed is in exactly one place: once in the
\* pending batch, or once in the batch of one sendBatch that is in flight, or
\* once in a batch the endpoint has accepted
C35_EveryEventInOnePlace ==
    \A e \in 1..numRecorded :
        Cardinality(InPending(e)) + Cardinality(InSendBatch(e)) + Cardinality(InAccepted(e)) = 1

\* ------------------------------------------------ claims on the acknowledgements
Acknowledged(d) == acks'[d] # acks[d] \/ naks'[d] # naks[d]

\* the delivery handleMessage is called with in this step, if any
Handled(d) == Len(msgChan) > 0 /\ Head(msgChan) = d /\ msgChan' = Tail(msgChan)

\* C36: the event buffer and the message buffer have the same length and position
\* i of both refers to the same delivery; no delivery has more than one
\* acknowledgement, Ack or Nak; an undecodable message gets its one Nak in the
\* handleMessage call that receives it and is never buffered; a buffered delivery
\* is acknowledged only in the flush that removes it from the buffers
C36_BuffersInStepOneAcknowledgement ==
    /\ [](/\ Len(events) = Len(messages)
          /\ \A i \in 1..Len(messages) :
                /\ events[i] = EventOf(messages[i].msg)
                /\ messages[i].msg \notin badMsgs
                /\ acks[messages[i]] + naks[messages[i]] = 0
          /\ \A d \in DOMAIN acks : acks[d] + naks[d] <= 1)
    /\ [][\A d \in DOMAIN acks :
            /\ (Handled(d) /\ d.msg \in badMsgs) =>
                  naks'[d] = 1 /\ acks'[d] = 0 /\ messages' = messages
            /\ Acknowledged(d) =>
                  /\ Handled(d) \/ d \in Range(messages)
                  /\ d \notin Range(messages')
                  /\ acks'[d] + naks'[d] = 1]_vars

C36_Witness ==
    \E bad \in DOMAIN naks, failed \in DOMAIN naks, stored \in DOMAIN acks :
        /\ bad.msg \in badMsgs /\ naks[bad] = 1
        /\ failed.msg \notin badMsgs /\ naks[failed] = 1
        /\ stored.msg = failed.msg /\ acks[stored] = 1

\* Start returns in this step, after the context was cancelled
StartReturns == cancelled /\ mainPc = "loop" /\ mainPc' = "returned"

\* C37: when Start returns after the shutdown signal, every event that is in the
\* buffer at that moment has been written to the three tables and its message has
\* been acked by the final flush
C37_FinalFlushStoresAndAcks ==
    [][StartReturns =>
          \A i \in 1..Len(events) :
              /\ Holds(tEvents', events[i])
              /\ Holds(tByFactoID', events[i])
              /\ Holds(tBySession', events[i])
              /\ acks'[messages[i]] = 1]_vars

\* the answers VerifyChain can give for the rows stored for the session: one for
\* every order the scan can return the rows in and sort.Slice can leave them in
VerifyChainAnswers ==
    {verifyChainResponse(sorted) :
        sorted \in UNION {SortedByCompletedAt(GetSessionEvents(scan, 10000, EmptyString).events) :
                            scan \in SessionScans(qBySession)}}

ChainFields(r) ==
    IF r.panic THEN <<r.status>>
    ELSE <<r.checks.chain_integrity_valid, r.errors, r.first_event, r.last_event, r.session_hash>>

\* C38: the answer of the whole-chain verify is a function of the set of events
\* stored for the session: whatever order the rows are returned and sorted in,
\* chain_integrity_valid, errors, first_event, last_event and session_hash agree
C38_VerifyChainIsFunctionOfSet ==
    qBySession # {} => \A r1, r2 \in VerifyChainAnswers : ChainFields(r1) = ChainFields(r2)

\* ------------------------------------------------ claims on the stream
\* C39: once the producers have stopped, with storage writes that eventually
\* succeed, the stream eventually holds no message: every message, an
\* undecodable one included, is eventually removed
C39_StreamDrains == <>(\A m \in BacklogMsgs : rdStream[m] = "removed")

\* ------------------------------------------------ claims on the cursor
PageIds(page) == {page.events[i].facto_id : i \in 1..Len(page.events)}

\* C40: the page returned to a request that passes the next_cursor of a page as
\* its cursor holds the events after that page: it shares no event with it
C40_CursorContinuesAfterPage ==
    qPrevious # <<>> => PageIds(qPrevious[1]) \cap PageIds(qResponse[1]) = {}
====
